---- MODULE Spec2Model ----
(***************************************************************************)
(* Annual-leave calculator: the calculation library under src/lib/calc.    *)
(*                                                                         *)
(* Representation of values                                                *)
(*  - A date string is a tuple <<yearTextWidth, year, month, day>>: the    *)
(*    text "2024-02-30" is <<4, 2024, 2, 30>>.  Month and day are always   *)
(*    two characters wide (the regular expression of isValidDateString     *)
(*    and padStart(2,'0') of formatDate both force that), so only the      *)
(*    width of the year text is kept.  The empty string "" is <<>>.        *)
(*  - A JavaScript Date is <<n>>, n the number of whole days since         *)
(*    1970-01-01 (every Date built here is a midnight), or <<>> for an     *)
(*    Invalid Date (time value NaN).                                       *)
(*  - An optional number (usedHoursTotal?: number) is <<>> when undefined  *)
(*    and <<v>> otherwise.                                                 *)
(*  - Hour amounts and workHoursPerDay are JavaScript numbers and may be   *)
(*    fractional; they are kept in units of 1/HourUnit hour.  Day counts   *)
(*    (accrued days, carryDays, calendarDays) are whole numbers.           *)
(***************************************************************************)
EXTENDS Integers, Sequences, FiniteSets, TLC

VARIABLES
    input,            \* arguments of the call being made
    output,           \* what the call returned or threw; <<>> before the call
    pc,               \* "ready" before the call, then the name of the function called
    policyRegistry,   \* policyEngine.ts: policy name -> calculator
    app,              \* App.tsx: the component state of the last render, the
                      \* effects of that render still to run, and the state
                      \* updates queued for the next render
    localStorage      \* the browser's storage: one entry per year and the
                      \* hire-date entry

vars == <<input, output, pc, policyRegistry, app, localStorage>>

-----------------------------------------------------------------------------
(* Bounds of the model *)

LastYear == 2024
MaxTenureArg == 24
MaxRecords == 2
MaxCalendarDays == 8
MaxFormatHours == 20

-----------------------------------------------------------------------------
(* Numbers *)

HourUnit == 2

Min(a, b) == IF a < b THEN a ELSE b

\* the element of a one-element set; The({F(v) : v \in {e}}) is F(e) with e
\* worked out once
The(S) == CHOOSE x \in S : TRUE

\* Number.isInteger on a value kept in 1/HourUnit units
IsIntegerHours(h) == h % HourUnit = 0

-----------------------------------------------------------------------------
(* JavaScript Date arithmetic (proleptic Gregorian calendar, UTC) *)

\* days from 1970-01-01 to the civil date y-m-d, m in 1..12
DaysFromCivil(y, m, d) ==
    LET yy  == IF m <= 2 THEN y - 1 ELSE y
        era == yy \div 400
        yoe == yy - era * 400
        mp  == IF m > 2 THEN m - 3 ELSE m + 9
        doy == (153 * mp + 2) \div 5 + d - 1
        doe == yoe * 365 + yoe \div 4 - yoe \div 100 + doy
    IN  era * 146097 + doe - 719468

\* the civil date of day doe of a 400-year era
CivilOfEraDay(era, doe) ==
    LET yoe == (doe - doe \div 1460 + doe \div 36524 - doe \div 146096) \div 365
        doy == doe - (365 * yoe + yoe \div 4 - yoe \div 100)
        mp  == (5 * doy + 2) \div 153
        d   == doy - (153 * mp + 2) \div 5 + 1
        m   == IF mp < 10 THEN mp + 3 ELSE mp - 9
        y   == yoe + era * 400 + (IF m <= 2 THEN 1 ELSE 0)
    IN  [y |-> y, m |-> m, d |-> d]

\* the civil date [y, m, d] of day number z
CivilFromDays(z) ==
    The({CivilOfEraDay(zz \div 146097, zz % 146097) : zz \in {z + 719468}})

\* MakeDay(year, monthIndex, day) of ECMAScript: an out-of-range month or
\* day carries into the next unit
MakeDay(year, monthIndex, day) ==
    LET ym == year + (monthIndex \div 12)
        mn == monthIndex % 12
    IN  DaysFromCivil(ym, mn + 1, 1) + day - 1

\* Date.UTC(year, monthIndex, day): years 0..99 mean 1900..1999
DateUTC(year, monthIndex, day) ==
    MakeDay(IF year >= 0 /\ year <= 99 THEN 1900 + year ELSE year, monthIndex, day)

InvalidDate == <<>>

\* String(n) for a year: the number of characters of the year text
YearTextWidth(y) ==
    IF y < 0 THEN 7
    ELSE IF y < 10 THEN 1
    ELSE IF y < 100 THEN 2
    ELSE IF y < 1000 THEN 3
    ELSE IF y < 10000 THEN 4
    ELSE 5

\* the date string "YYYY-MM-DD"
DateStr(y, m, d) == <<4, y, m, d>>

EmptyString == <<>>

-----------------------------------------------------------------------------
(* dateUtils.ts *)

\* /^\d{4}-\d{2}-\d{2}$/.test(dateStr)
MatchesDatePattern(dateStr) == Len(dateStr) = 4 /\ dateStr[1] = 4

parseDate(dateStr) ==
    IF MatchesDatePattern(dateStr)
    THEN <<DateUTC(dateStr[2], dateStr[3] - 1, dateStr[4])>>
    ELSE InvalidDate

formatDate(date) ==
    LET c == CivilFromDays(date[1])
    IN  <<YearTextWidth(c.y), c.y, c.m, c.d>>

isValidDateString(dateStr) ==
    IF ~MatchesDatePattern(dateStr) THEN FALSE
    ELSE LET date == parseDate(dateStr)
         IN  date # InvalidDate /\ formatDate(date) = dateStr

\* hire and asOf are the UTC year, month and day of the two Date objects
ServicePeriodBetween_NoDayBorrow(hire, asOf) ==
    LET years0  == asOf.y - hire.y
        months0 == asOf.m - hire.m
        years   == IF months0 < 0 THEN years0 - 1 ELSE years0
        months  == IF months0 < 0 THEN months0 + 12 ELSE months0
    IN  [years |-> years, months |-> months, totalMonths |-> years * 12 + months]

ServicePeriodBetween(hire, asOf) ==
    LET years0  == asOf.y - hire.y
        months0 == asOf.m - hire.m
        months1 == IF asOf.d < hire.d THEN months0 - 1 ELSE months0
        years   == IF months1 < 0 THEN years0 - 1 ELSE years0
        months  == IF months1 < 0 THEN months1 + 12 ELSE months1
    IN  [years |-> years, months |-> months, totalMonths |-> years * 12 + months]

calculateServicePeriod_ArgumentsSwapped(hireDate, asOfDate) ==
    The({ServicePeriodBetween(asOf, hire) :
            hire \in {CivilFromDays(parseDate(hireDate)[1])},
            asOf \in {CivilFromDays(parseDate(asOfDate)[1])}})

calculateServicePeriod(hireDate, asOfDate) ==
    The({ServicePeriodBetween(hire, asOf) :
            hire \in {CivilFromDays(parseDate(hireDate)[1])},
            asOf \in {CivilFromDays(parseDate(asOfDate)[1])}})

isBefore(date1, date2) ==
    LET d1 == parseDate(date1)
        d2 == parseDate(date2)
    IN  d1 # InvalidDate /\ d2 # InvalidDate /\ d1[1] < d2[1]

isAfter_OrEqual(date1, date2) ==
    LET d1 == parseDate(date1)
        d2 == parseDate(date2)
    IN  d1 # InvalidDate /\ d2 # InvalidDate /\ d1[1] >= d2[1]

isAfter(date1, date2) ==
    LET d1 == parseDate(date1)
        d2 == parseDate(date2)
    IN  d1 # InvalidDate /\ d2 # InvalidDate /\ d1[1] > d2[1]

-----------------------------------------------------------------------------
(* policies/default.ts *)

getYearlyDays_StepEveryYear(y) ==
    IF y < 1 THEN 0
    ELSE Min(15 + (y - 1), 25)

getYearlyDays(y) ==
    IF y < 1 THEN 0
    ELSE Min(15 + ((y - 1) \div 2), 25)

RECURSIVE AccrueYears(_, _, _)
\* for (let y = 1; y <= years; y++) accrued += getYearlyDays(y)
AccrueYears(accrued, y, years) ==
    IF y <= years
    THEN AccrueYears(accrued + getYearlyDays(y), y + 1, years)
    ELSE accrued

calculateDefaultAccruedDays_NoBaseline(hireDate, asOfDate) ==
    LET sp   == calculateServicePeriod(hireDate, asOfDate)
        hire == parseDate(hireDate)
        asOf == parseDate(asOfDate)
    IN  IF asOf[1] < hire[1] THEN 0
        ELSE IF sp.years < 1 THEN Min(sp.totalMonths, 11)
        ELSE AccrueYears(0, 1, sp.years)

calculateDefaultAccruedDays(hireDate, asOfDate) ==
    LET sp   == calculateServicePeriod(hireDate, asOfDate)
        hire == parseDate(hireDate)
        asOf == parseDate(asOfDate)
    IN  IF asOf[1] < hire[1] THEN 0
        ELSE IF sp.years < 1 THEN Min(sp.totalMonths, 11)
        ELSE AccrueYears(11, 1, sp.years)

-----------------------------------------------------------------------------
(* policyEngine.ts *)

\* the calculators a caller may hand to registerPolicy; "builtin" is the
\* DEFAULT entry the registry is created with
Calculators == {"builtin", "flat"}

PolicyNames == {"DEFAULT", "COMPANY"}

\* the names registerPolicy is called with.  An assignment to "__proto__"
\* does not create a property: it runs the setter inherited from
\* Object.prototype, which makes the function the registry's prototype, and
\* a later read of "__proto__" yields that function.  The registry keeps it
\* under the key "__proto__"; no name of PolicyTypes is inherited from a
\* function.
RegisteredNames == PolicyNames \cup {"__proto__"}

\* "UNKNOWN" is no property of the registry object at all; "__proto__" is
\* not registered either, but every object literal inherits it
PolicyTypes == PolicyNames \cup {"UNKNOWN", "__proto__"}

\* what a property read finds on Object.prototype when the object itself
\* has no such property: here the prototype object, which is not a function
ObjectPrototype == [name \in {"__proto__"} |-> "Object.prototype"]

\* calling a value that is not a function
TypeError == [thrown |-> TRUE, message |-> <<<<"TypeError: calculator is not a function">>>>]

ApplyCalculator(calculator, hireDate, asOfDate, policyConfig) ==
    IF calculator = "builtin"
    THEN calculateDefaultAccruedDays(hireDate, asOfDate)
    ELSE IF calculator = "flat"
    THEN 15 * calculateServicePeriod(hireDate, asOfDate).years
    ELSE TypeError

InitialRegistry == [name \in {"DEFAULT"} |-> "builtin"]

\* policyRegistry[type]: <<>> when the read yields undefined
LookupCalculator(registry, type) ==
    IF type \in DOMAIN registry THEN <<registry[type]>>
    ELSE IF type \in DOMAIN ObjectPrototype THEN <<ObjectPrototype[type]>>
    ELSE <<>>

getAccruedDays(registry, hireDate, asOfDate, policyConfig) ==
    LET calculator == LookupCalculator(registry, policyConfig.type)
    IN  IF calculator = <<>>
        THEN ApplyCalculator(registry["DEFAULT"], hireDate, asOfDate, policyConfig)
        ELSE ApplyCalculator(calculator[1], hireDate, asOfDate, policyConfig)

\* the call of getAccruedDays ends in a TypeError
getAccruedDaysThrows(registry, policyConfig) ==
    LET calculator == LookupCalculator(registry, policyConfig.type)
    IN  calculator # <<>> /\ calculator[1] \notin Calculators

\* Object.keys(policyRegistry): the object's own properties
getAvailablePolicies(registry) == DOMAIN registry \ DOMAIN ObjectPrototype

-----------------------------------------------------------------------------
(* Dates the calls are made with *)

ValidDatesOf(years, months, days) ==
    {s \in {DateStr(y, m, d) : y \in years, m \in months, d \in days} :
        isValidDateString(s)}

HireYears == {LastYear - 24, LastYear - 7, LastYear - 3, LastYear - 2, LastYear - 1, LastYear}

AsOfYears == {LastYear - 2, LastYear - 1, LastYear}

HireDates == ValidDatesOf(HireYears, {1, 2, 12}, {1, 29, 31})

AsOfDates == ValidDatesOf(AsOfYears, {1, 2, 6, 12}, {1, 15, 29, 31})

TenureArgs == (-2) .. MaxTenureArg

PolicyConfigs == [type : PolicyTypes]

NoOutput == <<>>

-----------------------------------------------------------------------------
(* Date primitives and accrual policy registry: one call per behaviour,    *)
(* after any number of registerPolicy calls                                *)

registerPolicy_KeepsFirst ==
    /\ pc = "ready"
    /\ \E name \in RegisteredNames, calculator \in Calculators :
        /\ policyRegistry' =
              [n \in (DOMAIN policyRegistry) \cup {name} |->
                  IF n \in DOMAIN policyRegistry THEN policyRegistry[n] ELSE calculator]
        /\ input' = [fn |-> "registerPolicy", name |-> name, calculator |-> calculator]
        /\ UNCHANGED <<output, pc, app, localStorage>>

registerPolicy ==
    /\ pc = "ready"
    /\ \E name \in RegisteredNames, calculator \in Calculators :
        /\ policyRegistry' =
              [n \in (DOMAIN policyRegistry) \cup {name} |->
                  IF n = name THEN calculator ELSE policyRegistry[n]]
        /\ input' = [fn |-> "registerPolicy", name |-> name, calculator |-> calculator]
        /\ UNCHANGED <<output, pc, app, localStorage>>

CallCalculateServicePeriod ==
    /\ pc = "ready"
    /\ \E h \in HireDates, a \in AsOfDates :
        /\ input' = [fn |-> "calculateServicePeriod", hireDate |-> h, asOfDate |-> a]
        /\ output' = calculateServicePeriod(h, a)
        /\ pc' = "returned"
        /\ UNCHANGED <<policyRegistry, app, localStorage>>

CallGetYearlyDays ==
    /\ pc = "ready"
    /\ \E y \in TenureArgs :
        /\ input' = [fn |-> "getYearlyDays", y |-> y]
        /\ output' = getYearlyDays(y)
        /\ pc' = "returned"
        /\ UNCHANGED <<policyRegistry, app, localStorage>>

CallCalculateDefaultAccruedDays ==
    /\ pc = "ready"
    /\ \E h \in HireDates, a \in AsOfDates :
        /\ input' = [fn |-> "calculateDefaultAccruedDays", hireDate |-> h, asOfDate |-> a]
        /\ output' = calculateDefaultAccruedDays(h, a)
        /\ pc' = "returned"
        /\ UNCHANGED <<policyRegistry, app, localStorage>>

CallGetAccruedDays ==
    /\ pc = "ready"
    /\ \E h \in HireDates, a \in AsOfDates, c \in PolicyConfigs :
        /\ input' = [fn |-> "getAccruedDays", hireDate |-> h, asOfDate |-> a,
                     policyConfig |-> c]
        /\ output' = getAccruedDays(policyRegistry, h, a, c)
        /\ pc' = IF getAccruedDaysThrows(policyRegistry, c) THEN "threw" ELSE "returned"
        /\ UNCHANGED <<policyRegistry, app, localStorage>>

-----------------------------------------------------------------------------
(* App.tsx: the state the component is created with *)

\* SUPPORTED_HOLIDAY_YEARS holds this one year
PresetYear == 2026

\* the years the year selector is moved between
AppYears == {PresetYear - 1, PresetYear}

\* the useState initial values; every effect runs after the first render
InitialApp(currentYear) ==
    [year               |-> currentYear,
     hireDate           |-> EmptyString,
     carryDays          |-> 0,
     annualLeaveRecords |-> <<>>,
     eventLeaveRecords  |-> <<>>,
     holidays           |-> <<>>,
     isHydrated         |-> FALSE,
     effects            |-> <<"load", "save", "recompute">>,
     queue              |-> <<>>]

\* localStorage.getItem gives null for a key never written
NoItem == <<>>

EmptyStorage ==
    [years    |-> [y \in AppYears |-> NoItem],
     hireDate |-> NoItem]

InitCore ==
    /\ input = [fn |-> "none"]
    /\ output = NoOutput
    /\ pc = "ready"
    /\ policyRegistry = InitialRegistry
    /\ app = InitialApp(PresetYear)
    /\ localStorage = EmptyStorage

NextAccrual ==
    \/ registerPolicy
    \/ CallCalculateServicePeriod
    \/ CallGetYearlyDays
    \/ CallCalculateDefaultAccruedDays
    \/ CallGetAccruedDays

SpecAccrual == InitCore /\ [][NextAccrual]_vars

Returned(fn) == pc = "returned" /\ input.fn = fn

-----------------------------------------------------------------------------
(* Calendar order of two date strings, by their year, month and day fields *)

DateBefore(s, t) ==
    \/ s[2] < t[2]
    \/ s[2] = t[2] /\ s[3] < t[3]
    \/ s[2] = t[2] /\ s[3] = t[3] /\ s[4] < t[4]

DateNotAfter(s, t) == ~DateBefore(t, s)

-----------------------------------------------------------------------------
(* C9: for every pair of valid dates (hire, asOf), asOf before hire        *)
(* included, calculateServicePeriod returns totalMonths = years*12+months  *)
(* with months in 0..11, and totalMonths is the month difference less one  *)
(* when the as-of day-of-month is smaller than the hire day-of-month.      *)
C9_ServicePeriod ==
    Returned("calculateServicePeriod") =>
        LET h == input.hireDate
            a == input.asOfDate
            borrow == IF a[4] < h[4] THEN 1 ELSE 0
        IN  /\ output.totalMonths = output.years * 12 + output.months
            /\ output.months \in 0 .. 11
            /\ output.totalMonths = (a[2] - h[2]) * 12 + (a[3] - h[3]) - borrow

\* an as-of date before the hire date whose day-of-month is the smaller one
C9_Witness ==
    /\ Returned("calculateServicePeriod")
    /\ DateBefore(input.asOfDate, input.hireDate)
    /\ input.asOfDate[4] < input.hireDate[4]
    /\ output.years < 0
    /\ output.months = 11

-----------------------------------------------------------------------------
(* C10: getYearlyDays(y) is non-decreasing in y; for y >= 1 it is 15 plus  *)
(* one day for every two further years, capped at 25, hence in 15..25;     *)
(* for y <= 0 it is 0.                                                     *)
C10_YearlyDays ==
    Returned("getYearlyDays") =>
        LET y == input.y
            steps == Cardinality({k \in 1 .. 10 : 2 * k + 1 <= y})
        IN  /\ output <= getYearlyDays(y + 1)
            /\ y >= 1 => output = 15 + steps /\ output \in 15 .. 25
            /\ y <= 0 => output = 0

\* the cap is reached: the 21st year grants 25 days and so does the 22nd
C10_Witness ==
    /\ Returned("getYearlyDays")
    /\ input.y = 21
    /\ output = 25
    /\ getYearlyDays(20) = 24

-----------------------------------------------------------------------------
(* C3: the DEFAULT policy returns 0 when asOf is before hire, min(total    *)
(* months, 11) when fewer than one tenure year is completed, and 11 plus   *)
(* the sum of getYearlyDays(y) for y = 1..years otherwise.                 *)

RECURSIVE SumYearlyDays(_)
SumYearlyDays(n) == IF n <= 0 THEN 0 ELSE getYearlyDays(n) + SumYearlyDays(n - 1)

\* completed years and months between two dates, from their fields
CompletedMonths(h, a) ==
    (a[2] - h[2]) * 12 + (a[3] - h[3]) - (IF a[4] < h[4] THEN 1 ELSE 0)

ExpectedDefaultAccrued(h, a) ==
    LET totalMonths == CompletedMonths(h, a)
        years == totalMonths \div 12
    IN  IF DateBefore(a, h) THEN 0
        ELSE IF years < 1 THEN Min(totalMonths, 11)
        ELSE 11 + SumYearlyDays(years)

IsDefaultPolicyCall ==
    \/ Returned("calculateDefaultAccruedDays")
    \/ /\ Returned("getAccruedDays")
       /\ input.policyConfig.type = "DEFAULT"
       /\ policyRegistry["DEFAULT"] = "builtin"

C3_DefaultPolicy ==
    IsDefaultPolicyCall => output = ExpectedDefaultAccrued(input.hireDate, input.asOfDate)

\* seven completed years through getAccruedDays: 11+15+15+16+16+17+17+18
C3_Witness ==
    /\ Returned("getAccruedDays")
    /\ input.policyConfig.type = "DEFAULT"
    /\ policyRegistry["DEFAULT"] = "builtin"
    /\ input.hireDate = DateStr(LastYear - 7, 1, 1)
    /\ input.asOfDate = DateStr(LastYear, 1, 1)
    /\ output = 125

-----------------------------------------------------------------------------
(* index.ts: balance calculator *)

Undefined == <<>>

RECURSIVE SumAmountHours(_)
\* records.reduce((sum, record) => sum + record.amountHours, 0)
SumAmountHours(records) ==
    IF records = <<>> THEN 0
    ELSE records[1].amountHours + SumAmountHours(Tail(records))

\* what one pass of the forEach of validateInput pushes for a record
UsageRecordErrors(record, index) ==
    (IF ~isValidDateString(record.date)
     THEN <<<<"usage record: date invalid", index>>>> ELSE <<>>)
    \o (IF record.amountHours <= 0
        THEN <<<<"usage record: amountHours must be positive", index>>>> ELSE <<>>)
    \o (IF ~IsIntegerHours(record.amountHours)
        THEN <<<<"usage record: amountHours must be an integer", index>>>> ELSE <<>>)

UsageRecordWarnings_OnOrAfter(record, index, asOfDate) ==
    IF /\ isValidDateString(record.date)
       /\ isValidDateString(asOfDate)
       /\ ~isBefore(record.date, asOfDate)
    THEN <<<<"usage record after asOfDate is excluded", index, asOfDate>>>>
    ELSE <<>>

UsageRecordWarnings(record, index, asOfDate) ==
    IF /\ isValidDateString(record.date)
       /\ isValidDateString(asOfDate)
       /\ isAfter(record.date, asOfDate)
    THEN <<<<"usage record after asOfDate is excluded", index, asOfDate>>>>
    ELSE <<>>

RECURSIVE UsageErrorsFrom_StopAtFirst(_, _)
UsageErrorsFrom_StopAtFirst(records, index) ==
    IF index > Len(records) THEN <<>>
    ELSE IF UsageRecordErrors(records[index], index) # <<>>
    THEN UsageRecordErrors(records[index], index)
    ELSE UsageErrorsFrom_StopAtFirst(records, index + 1)

RECURSIVE UsageErrorsFrom(_, _)
UsageErrorsFrom(records, index) ==
    IF index > Len(records) THEN <<>>
    ELSE UsageRecordErrors(records[index], index) \o UsageErrorsFrom(records, index + 1)

RECURSIVE UsageWarningsFrom(_, _, _)
UsageWarningsFrom(records, index, asOfDate) ==
    IF index > Len(records) THEN <<>>
    ELSE UsageRecordWarnings(records[index], index, asOfDate)
            \o UsageWarningsFrom(records, index + 1, asOfDate)

validateInput(in) ==
    LET errors ==
            (IF ~isValidDateString(in.hireDate)
             THEN <<<<"hireDate invalid">>>> ELSE <<>>)
            \o (IF ~isValidDateString(in.asOfDate)
                THEN <<<<"asOfDate invalid">>>> ELSE <<>>)
            \o (IF /\ isValidDateString(in.hireDate)
                   /\ isValidDateString(in.asOfDate)
                   /\ isAfter(in.hireDate, in.asOfDate)
                THEN <<<<"asOfDate must not be before hireDate">>>> ELSE <<>>)
            \o (IF in.workHoursPerDay <= 0 \/ in.workHoursPerDay > 24 * HourUnit
                THEN <<<<"workHoursPerDay out of range">>>> ELSE <<>>)
            \o (IF in.usedHoursTotal # Undefined /\ in.usedHoursTotal[1] < 0
                THEN <<<<"usedHoursTotal must not be negative">>>> ELSE <<>>)
            \o (IF in.usedHoursTotal # Undefined /\ ~IsIntegerHours(in.usedHoursTotal[1])
                THEN <<<<"usedHoursTotal must be an integer">>>> ELSE <<>>)
            \o (IF in.usageRecords # Undefined
                THEN UsageErrorsFrom(in.usageRecords[1], 1) ELSE <<>>)
        warnings ==
            IF in.usageRecords # Undefined
            THEN UsageWarningsFrom(in.usageRecords[1], 1, in.asOfDate) ELSE <<>>
    IN  [isValid |-> errors = <<>>, errors |-> errors, warnings |-> warnings]

isDateInYear_AnyValidDate(date, year) == isValidDateString(date)

isDateInYear(date, year) ==
    IF ~isValidDateString(date) THEN FALSE
    ELSE date[2] = year

AnnualRecordErrors(record, index, year) ==
    (IF ~isValidDateString(record.date)
     THEN <<<<"annual leave: date invalid", index>>>>
     ELSE IF ~isDateInYear(record.date, year)
     THEN <<<<"annual leave: date outside the year", index, year>>>>
     ELSE <<>>)
    \o (IF record.amountHours <= 0
        THEN <<<<"annual leave: amountHours must be positive", index>>>> ELSE <<>>)
    \o (IF ~IsIntegerHours(record.amountHours)
        THEN <<<<"annual leave: amountHours must be an integer", index>>>> ELSE <<>>)

RECURSIVE AnnualErrorsFrom(_, _, _)
AnnualErrorsFrom(records, index, year) ==
    IF index > Len(records) THEN <<>>
    ELSE AnnualRecordErrors(records[index], index, year)
            \o AnnualErrorsFrom(records, index + 1, year)

\* (year is a whole number here, so Number.isInteger(input.year) holds)
validateYearRemainInput(in) ==
    LET errors ==
            (IF in.year < 1900 \/ in.year > 2100
             THEN <<<<"year invalid">>>> ELSE <<>>)
            \o (IF ~isValidDateString(in.hireDate)
                THEN <<<<"hireDate invalid">>>> ELSE <<>>)
            \o (IF isValidDateString(in.hireDate) /\ in.hireDate[2] > in.year
                THEN <<<<"hireDate is after the year">>>> ELSE <<>>)
            \o (IF in.carryDays < 0
                THEN <<<<"carryDays must not be negative">>>> ELSE <<>>)
            \o (IF in.workHoursPerDay <= 0 \/ in.workHoursPerDay > 24 * HourUnit
                THEN <<<<"workHoursPerDay out of range">>>> ELSE <<>>)
            \o AnnualErrorsFrom(in.annualLeaveRecords, 1, in.year)
    IN  [isValid |-> errors = <<>>, errors |-> errors, warnings |-> <<>>]

calculateYearUsedHours(annualLeaveRecords) == SumAmountHours(annualLeaveRecords)

UsageRecordCounts(record, asOfDate) ==
    isValidDateString(record.date) /\ ~isAfter(record.date, asOfDate)

calculateUsedHours_ScalarWhenNoneCounts(usedHoursTotal, usageRecords, asOfDate) ==
    LET Counts(record) == UsageRecordCounts(record, asOfDate)
    IN  IF /\ usageRecords # Undefined
           /\ Len(SelectSeq(usageRecords[1], Counts)) > 0
        THEN SumAmountHours(SelectSeq(usageRecords[1], Counts))
        ELSE IF usedHoursTotal = Undefined THEN 0 ELSE usedHoursTotal[1]

calculateUsedHours(usedHoursTotal, usageRecords, asOfDate) ==
    IF usageRecords # Undefined /\ Len(usageRecords[1]) > 0
    THEN LET Counts(record) == UsageRecordCounts(record, asOfDate)
         IN  SumAmountHours(SelectSeq(usageRecords[1], Counts))
    ELSE IF usedHoursTotal = Undefined THEN 0 ELSE usedHoursTotal[1]

\* new Error(validation.errors.join('\n')): the message is its lines in order
Thrown(errors) == [thrown |-> TRUE, message |-> errors]

ReturnedValue(value) == [thrown |-> FALSE, value |-> value]

\* calculate, once the input has passed validation
\* (the ...Days and ...Pretty display fields are derived from the hour fields)
CalculationResultOf_ClampedRemaining(registry, in) ==
    LET servicePeriod == calculateServicePeriod(in.hireDate, in.asOfDate)
        accruedDaysTotal ==
            getAccruedDays(registry, in.hireDate, in.asOfDate, in.policyConfig)
        accruedHoursTotal == accruedDaysTotal * in.workHoursPerDay
        usedHoursTotal ==
            calculateUsedHours(in.usedHoursTotal, in.usageRecords, in.asOfDate)
        remainingHours ==
            IF accruedHoursTotal < usedHoursTotal THEN 0
            ELSE accruedHoursTotal - usedHoursTotal
    IN  [servicePeriod      |-> servicePeriod,
         accruedHoursTotal  |-> accruedHoursTotal,
         usedHoursTotal     |-> usedHoursTotal,
         remainingHours     |-> remainingHours,
         accruedDaysTotal   |-> accruedDaysTotal]

CalculationResultOf(registry, in) ==
    LET servicePeriod == calculateServicePeriod(in.hireDate, in.asOfDate)
        accruedDaysTotal ==
            getAccruedDays(registry, in.hireDate, in.asOfDate, in.policyConfig)
        accruedHoursTotal == accruedDaysTotal * in.workHoursPerDay
        usedHoursTotal ==
            calculateUsedHours(in.usedHoursTotal, in.usageRecords, in.asOfDate)
        remainingHours == accruedHoursTotal - usedHoursTotal
    IN  [servicePeriod      |-> servicePeriod,
         accruedHoursTotal  |-> accruedHoursTotal,
         usedHoursTotal     |-> usedHoursTotal,
         remainingHours     |-> remainingHours,
         accruedDaysTotal   |-> accruedDaysTotal]

calculate_ThrowsOnWarnings(registry, in) ==
    LET validation == validateInput(in)
    IN  IF ~validation.isValid \/ validation.warnings # <<>>
        THEN Thrown(validation.errors \o validation.warnings)
        ELSE IF getAccruedDaysThrows(registry, in.policyConfig) THEN TypeError
        ELSE ReturnedValue(CalculationResultOf(registry, in))

\* an exception of getAccruedDays is not caught
calculate(registry, in) ==
    LET validation == validateInput(in)
    IN  IF ~validation.isValid THEN Thrown(validation.errors)
        ELSE IF getAccruedDaysThrows(registry, in.policyConfig) THEN TypeError
        ELSE ReturnedValue(CalculationResultOf(registry, in))

YearEnd_FirstOfJanuary(year) == <<YearTextWidth(year), year, 1, 1>>

\* `${year}-12-31`
YearEnd(year) == <<YearTextWidth(year), year, 12, 31>>

YearlyGrantDays_WithBaseline(in, servicePeriod) ==
    LET tenureYears == servicePeriod.years
        hireYear == in.hireDate[2]
        hireMonth == in.hireDate[3]
    IN  IF tenureYears < 1
        THEN IF hireYear = in.year
             THEN Min(12 - hireMonth + 1, 11)
             ELSE Min(servicePeriod.totalMonths, 11)
        ELSE 11 + getYearlyDays(tenureYears)

\* the yearlyGrantDays branch of calculateYearRemain
YearlyGrantDays(in, servicePeriod) ==
    LET tenureYears == servicePeriod.years
        hireYear == in.hireDate[2]
        hireMonth == in.hireDate[3]
    IN  IF tenureYears < 1
        THEN IF hireYear = in.year
             THEN Min(12 - hireMonth + 1, 11)
             ELSE Min(servicePeriod.totalMonths, 11)
        ELSE getYearlyDays(tenureYears)

YearRemainResultOf_CarryDropped(in) ==
    LET usedHoursTotal == calculateYearUsedHours(in.annualLeaveRecords)
        servicePeriod == calculateServicePeriod(in.hireDate, YearEnd(in.year))
        yearlyGrantDays == YearlyGrantDays(in, servicePeriod)
        yearlyGrantHours == yearlyGrantDays * in.workHoursPerDay
        carryHours == in.carryDays * in.workHoursPerDay
        availableHours == yearlyGrantHours + carryHours
        usedHours == usedHoursTotal
        remainingHours == yearlyGrantHours - usedHours
    IN  [year             |-> in.year,
         tenureYears      |-> servicePeriod.years,
         yearlyGrantDays  |-> yearlyGrantDays,
         yearlyGrantHours |-> yearlyGrantHours,
         carryDays        |-> in.carryDays,
         carryHours       |-> carryHours,
         availableHours   |-> availableHours,
         usedHours        |-> usedHours,
         remainingHours   |-> remainingHours]

\* calculateYearRemain, once the input has passed validation
\* (the ...Days and ...Pretty display fields are derived from the hour fields)
YearRemainResultOf(in) ==
    LET usedHoursTotal == calculateYearUsedHours(in.annualLeaveRecords)
        servicePeriod == calculateServicePeriod(in.hireDate, YearEnd(in.year))
        yearlyGrantDays == YearlyGrantDays(in, servicePeriod)
        yearlyGrantHours == yearlyGrantDays * in.workHoursPerDay
        carryHours == in.carryDays * in.workHoursPerDay
        availableHours == yearlyGrantHours + carryHours
        usedHours == usedHoursTotal
        remainingHours == availableHours - usedHours
    IN  [year             |-> in.year,
         tenureYears      |-> servicePeriod.years,
         yearlyGrantDays  |-> yearlyGrantDays,
         yearlyGrantHours |-> yearlyGrantHours,
         carryDays        |-> in.carryDays,
         carryHours       |-> carryHours,
         availableHours   |-> availableHours,
         usedHours        |-> usedHours,
         remainingHours   |-> remainingHours]

calculateYearRemain(in) ==
    LET validation == validateYearRemainInput(in)
    IN  IF ~validation.isValid THEN Thrown(validation.errors)
        ELSE ReturnedValue(YearRemainResultOf(in))

-----------------------------------------------------------------------------
(* Arguments the balance calculator is called with *)

SeqsUpTo(S, n) == UNION {[1 .. k -> S] : k \in 0 .. n}

LifetimeHireDates ==
    {DateStr(LastYear - 1, 1, 1), DateStr(LastYear, 1, 15), EmptyString}

LifetimeAsOfDates ==
    {DateStr(LastYear, 1, 1), DateStr(LastYear, 6, 15), DateStr(LastYear, 2, 30)}

\* 0 h, 7.5 h and 8 h
WorkHours == {0, 7 * HourUnit + 1, 8 * HourUnit}

\* undefined, 40 h and 0.5 h
OptionalHours == {Undefined, <<40 * HourUnit>>, <<1>>}

UsageRecordValues ==
    {[date |-> DateStr(LastYear, 3, 10),  amountHours |-> 16 * HourUnit],
     [date |-> DateStr(LastYear, 12, 31), amountHours |-> 8 * HourUnit],
     [date |-> DateStr(LastYear, 2, 30),  amountHours |-> 4 * HourUnit],
     [date |-> DateStr(LastYear, 6, 15),  amountHours |-> 1]}

OptionalUsageLists ==
    {Undefined} \cup {<<l>> : l \in SeqsUpTo(UsageRecordValues, MaxRecords)}

CalculationInputs ==
    [hireDate        : LifetimeHireDates,
     asOfDate        : LifetimeAsOfDates,
     workHoursPerDay : WorkHours,
     usedHoursTotal  : OptionalHours,
     usageRecords    : OptionalUsageLists,
     policyConfig    : PolicyConfigs]

YearArgs == {1899, LastYear - 1, LastYear}

YearHireDates ==
    ValidDatesOf({LastYear - 2, LastYear - 1, LastYear}, {1, 12}, {1, 31})
        \cup {DateStr(LastYear - 24, 3, 1), EmptyString}

CarryDaysArgs == {-1, 0, 5}

AnnualRecordValues ==
    {[date |-> DateStr(LastYear, 3, 10),     amountHours |-> 40 * HourUnit],
     [date |-> DateStr(LastYear - 1, 12, 31), amountHours |-> 8 * HourUnit],
     [date |-> DateStr(LastYear, 6, 15),     amountHours |-> 1]}

YearRemainInputs ==
    [year               : YearArgs,
     hireDate           : YearHireDates,
     carryDays          : CarryDaysArgs,
     workHoursPerDay    : WorkHours,
     annualLeaveRecords : SeqsUpTo(AnnualRecordValues, MaxRecords),
     policyConfig       : {[type |-> "DEFAULT"]}]

-----------------------------------------------------------------------------
(* Balance calculator: one call per behaviour, after any number of         *)
(* registerPolicy calls                                                    *)

CallCalculate ==
    /\ pc = "ready"
    /\ \E in \in CalculationInputs :
        /\ input' = [fn |-> "calculate", arg |-> in]
        /\ output' = calculate(policyRegistry, in)
        /\ pc' = "returned"
        /\ UNCHANGED <<policyRegistry, app, localStorage>>

CallCalculateUsedHours ==
    /\ pc = "ready"
    /\ \E u \in OptionalHours, l \in OptionalUsageLists,
          a \in LifetimeAsOfDates \cup {EmptyString} :
        /\ input' = [fn |-> "calculateUsedHours", usedHoursTotal |-> u,
                     usageRecords |-> l, asOfDate |-> a]
        /\ output' = calculateUsedHours(u, l, a)
        /\ pc' = "returned"
        /\ UNCHANGED <<policyRegistry, app, localStorage>>

CallCalculateYearRemain ==
    /\ pc = "ready"
    /\ \E in \in YearRemainInputs :
        /\ input' = [fn |-> "calculateYearRemain", arg |-> in]
        /\ output' = calculateYearRemain(in)
        /\ pc' = "returned"
        /\ UNCHANGED <<policyRegistry, app, localStorage>>

Next ==
    \/ registerPolicy
    \/ CallCalculate
    \/ CallCalculateUsedHours
    \/ CallCalculateYearRemain

Spec == InitCore /\ [][Next]_vars

-----------------------------------------------------------------------------
(* C1: for every input accepted by validateInput, calculate returns        *)
(* accruedHoursTotal = getAccruedDays(hireDate, asOfDate, policyConfig) *  *)
(* workHoursPerDay and remainingHours = accruedHoursTotal - usedHoursTotal; *)
(* a negative remainingHours is returned as a value, not raised.           *)
C1_BalanceIdentity ==
    (Returned("calculate") /\ validateInput(input.arg).isValid) =>
        /\ ~output.thrown
        /\ output.value.accruedHoursTotal =
              getAccruedDays(policyRegistry, input.arg.hireDate, input.arg.asOfDate,
                             input.arg.policyConfig) * input.arg.workHoursPerDay
        /\ output.value.remainingHours =
              output.value.accruedHoursTotal - output.value.usedHoursTotal

\* over-use: more hours used than accrued, returned as a negative balance
C1_Witness ==
    /\ Returned("calculate")
    /\ validateInput(input.arg).isValid
    /\ ~output.thrown
    /\ output.value.accruedHoursTotal > 0
    /\ output.value.usedHoursTotal > output.value.accruedHoursTotal
    /\ output.value.remainingHours < 0

-----------------------------------------------------------------------------
(* C2: for every input accepted by validateYearRemainInput,                *)
(* calculateYearRemain returns usedHours = the sum of amountHours over all *)
(* supplied records, carryHours = carryDays * workHoursPerDay,             *)
(* availableHours = yearlyGrantHours + carryHours and remainingHours =     *)
(* availableHours - usedHours, which may be negative.                      *)

RECURSIVE TotalOfFirst(_, _)
\* amountHours of the first n records added up, last record first
TotalOfFirst(records, n) ==
    IF n = 0 THEN 0 ELSE TotalOfFirst(records, n - 1) + records[n].amountHours

C2_YearBalance ==
    (Returned("calculateYearRemain") /\ validateYearRemainInput(input.arg).isValid) =>
        LET in == input.arg
            r  == output.value
        IN  /\ ~output.thrown
            /\ r.usedHours = TotalOfFirst(in.annualLeaveRecords, Len(in.annualLeaveRecords))
            /\ r.carryHours = in.carryDays * in.workHoursPerDay
            /\ r.availableHours = r.yearlyGrantHours + r.carryHours
            /\ r.remainingHours = r.availableHours - r.usedHours

\* carried-over days count and the year is over-used
C2_Witness ==
    /\ Returned("calculateYearRemain")
    /\ ~output.thrown
    /\ input.arg.carryDays > 0
    /\ Len(input.arg.annualLeaveRecords) >= 2
    /\ output.value.carryHours > 0
    /\ output.value.remainingHours < 0

-----------------------------------------------------------------------------
(* C4: calculateYearRemain takes the tenure as of December 31 of the       *)
(* target year; yearlyGrantDays is getYearlyDays(tenureYears) alone when   *)
(* tenure years >= 1, min(13 - hireMonth, 11) when tenure years < 1 and    *)
(* the hire year is the target year, min(totalMonths, 11) when tenure      *)
(* years < 1 and the hire year differs.                                    *)
C4_YearlyGrant ==
    (Returned("calculateYearRemain") /\ ~output.thrown) =>
        LET in == input.arg
            totalMonths == CompletedMonths(in.hireDate, DateStr(in.year, 12, 31))
            years == totalMonths \div 12
        IN  /\ output.value.tenureYears = years
            /\ output.value.yearlyGrantDays =
                  IF years >= 1 THEN getYearlyDays(years)
                  ELSE IF in.hireDate[2] = in.year THEN Min(13 - in.hireDate[3], 11)
                  ELSE Min(totalMonths, 11)

\* hired in January of the target year: 12 months, capped at 11 days
C4_Witness ==
    /\ Returned("calculateYearRemain")
    /\ ~output.thrown
    /\ input.arg.hireDate[2] = input.arg.year
    /\ input.arg.hireDate[3] = 1
    /\ output.value.tenureYears = 0
    /\ output.value.yearlyGrantDays = 11

-----------------------------------------------------------------------------
(* C5: calculate throws exactly when validateInput reports an error and    *)
(* calculateYearRemain exactly when validateYearRemainInput does; the      *)
(* thrown message is all the error messages joined, no result is returned  *)
(* with it, and warnings alone do not cause a throw.                       *)
ThrowsExactly(validation) ==
    /\ output.thrown <=> validation.errors # <<>>
    /\ output.thrown => output.message = validation.errors /\ "value" \notin DOMAIN output
    /\ ~output.thrown => "value" \in DOMAIN output

C5_ThrowIffErrors ==
    /\ Returned("calculate") => ThrowsExactly(validateInput(input.arg))
    /\ Returned("calculateYearRemain") => ThrowsExactly(validateYearRemainInput(input.arg))

\* calculate threw a message of more than one line
C5_Witness ==
    /\ Returned("calculate")
    /\ output.thrown
    /\ Len(output.message) >= 3
    /\ validateInput(input.arg).warnings # <<>>

\* a warning without any error: calculate returns
C5_WitnessWarningOnly ==
    /\ Returned("calculate")
    /\ validateInput(input.arg).warnings # <<>>
    /\ validateInput(input.arg).errors = <<>>
    /\ ~output.thrown

-----------------------------------------------------------------------------
(* C6: calculateUsedHours, given a valid asOfDate: with a non-empty record *)
(* list the result is the sum of amountHours over the records that carry a *)
(* valid date not after asOfDate, and usedHoursTotal is ignored even when  *)
(* every record is left out; with no list or an empty one the result is    *)
(* usedHoursTotal, or 0 when that is undefined.                            *)

RECURSIVE TotalNotAfter(_, _, _)
TotalNotAfter(records, n, asOfDate) ==
    IF n = 0 THEN 0
    ELSE TotalNotAfter(records, n - 1, asOfDate)
            + (IF /\ isValidDateString(records[n].date)
                  /\ DateNotAfter(records[n].date, asOfDate)
               THEN records[n].amountHours ELSE 0)

C6_UsedHours ==
    (Returned("calculateUsedHours") /\ isValidDateString(input.asOfDate)) =>
        IF input.usageRecords # Undefined /\ input.usageRecords[1] # <<>>
        THEN output = TotalNotAfter(input.usageRecords[1], Len(input.usageRecords[1]),
                                    input.asOfDate)
        ELSE IF input.usedHoursTotal = Undefined THEN output = 0
        ELSE output = input.usedHoursTotal[1]

\* every record is dated after asOfDate: 0, although a scalar was given
C6_Witness ==
    /\ Returned("calculateUsedHours")
    /\ isValidDateString(input.asOfDate)
    /\ input.usedHoursTotal = <<40 * HourUnit>>
    /\ input.usageRecords # Undefined
    /\ Len(input.usageRecords[1]) = MaxRecords
    /\ \A i \in 1 .. MaxRecords :
          /\ isValidDateString(input.usageRecords[1][i].date)
          /\ DateBefore(input.asOfDate, input.usageRecords[1][i].date)
    /\ output = 0

-----------------------------------------------------------------------------
(* workingDays.ts.  Start dates are valid date strings, and local midnight *)
(* exists for every day of the host time zone, so a local Date is the day  *)
(* number of its local calendar date.                                      *)

formatDateToYYYYMMDD(date) ==
    LET c == CivilFromDays(date[1])
    IN  <<YearTextWidth(c.y), c.y, c.m, c.d>>

\* new Date(`${dateStr}T00:00:00`), dateStr a valid date string
parseLocalDate(dateStr) == <<DaysFromCivil(dateStr[2], dateStr[3], dateStr[4])>>

\* date.getDay(): 0 is Sunday; 1970-01-01 was a Thursday
getDay(date) == (date[1] + 4) % 7

isWeekend(date) ==
    LET day == getDay(date)
    IN  day = 0 \/ day = 6

isHoliday(dateStr, holidays) == dateStr \in holidays

\* currentDate = new Date(startDate); currentDate.setDate(startDate.getDate() + i)
DatePlusDays(startDate, i) ==
    LET c == CivilFromDays(startDate[1])
    IN  <<MakeDay(c.y, c.m - 1, c.d + i)>>

getDateRange(startDateStr, calendarDays) ==
    LET startDate == parseLocalDate(startDateStr)
    IN  [k \in 1 .. calendarDays |->
            formatDateToYYYYMMDD(DatePlusDays(startDate, k - 1))]

RECURSIVE CountWorking_HolidaysSubtracted(_, _, _)
CountWorking_HolidaysSubtracted(dateRange, holidays, workingDays) ==
    IF dateRange = <<>> THEN workingDays
    ELSE LET dateStr == Head(dateRange)
             date == parseLocalDate(dateStr)
         IN  CountWorking_HolidaysSubtracted(Tail(dateRange), holidays,
                 workingDays + (IF ~isWeekend(date) THEN 1 ELSE 0)
                             - (IF isHoliday(dateStr, holidays) THEN 1 ELSE 0))

RECURSIVE CountWorking(_, _, _)
\* the for..of loop of calculateWorkingDays
CountWorking(dateRange, holidays, workingDays) ==
    IF dateRange = <<>> THEN workingDays
    ELSE LET dateStr == Head(dateRange)
             date == parseLocalDate(dateStr)
         IN  CountWorking(Tail(dateRange), holidays,
                 IF ~isWeekend(date) /\ ~isHoliday(dateStr, holidays)
                 THEN workingDays + 1 ELSE workingDays)

calculateWorkingDays(startDateStr, calendarDays, holidays) ==
    CountWorking(getDateRange(startDateStr, calendarDays), holidays, 0)

RECURSIVE Classify_BothCounted(_, _, _)
Classify_BothCounted(dateRange, holidays, counts) ==
    IF dateRange = <<>> THEN counts
    ELSE LET dateStr == Head(dateRange)
             date == parseLocalDate(dateStr)
             weekend == isWeekend(date)
             holiday == isHoliday(dateStr, holidays)
         IN  Classify_BothCounted(Tail(dateRange), holidays,
                 [workingDays |-> counts.workingDays
                                   + (IF ~weekend /\ ~holiday THEN 1 ELSE 0),
                  weekendDays |-> counts.weekendDays + (IF weekend THEN 1 ELSE 0),
                  holidayDays |-> counts.holidayDays + (IF holiday THEN 1 ELSE 0)])

RECURSIVE Classify(_, _, _)
\* the for..of loop of calculateWorkingDaysDetailed
Classify(dateRange, holidays, counts) ==
    IF dateRange = <<>> THEN counts
    ELSE LET dateStr == Head(dateRange)
             date == parseLocalDate(dateStr)
             weekend == isWeekend(date)
             holiday == isHoliday(dateStr, holidays)
         IN  Classify(Tail(dateRange), holidays,
                 IF weekend
                 THEN [counts EXCEPT !.weekendDays = @ + 1]
                 ELSE IF holiday
                 THEN [counts EXCEPT !.holidayDays = @ + 1]
                 ELSE [counts EXCEPT !.workingDays = @ + 1])

calculateWorkingDaysDetailed_HolidaysIgnored(startDateStr, calendarDays, holidays) ==
    LET dateRange == getDateRange(startDateStr, calendarDays)
        counts == Classify(dateRange, {},
                      [workingDays |-> 0, weekendDays |-> 0, holidayDays |-> 0])
    IN  [calendarDays |-> calendarDays,
         workingDays  |-> counts.workingDays,
         weekendDays  |-> counts.weekendDays,
         holidayDays  |-> counts.holidayDays,
         dateRange    |-> dateRange]

calculateWorkingDaysDetailed(startDateStr, calendarDays, holidays) ==
    LET dateRange == getDateRange(startDateStr, calendarDays)
        counts == Classify(dateRange, holidays,
                      [workingDays |-> 0, weekendDays |-> 0, holidayDays |-> 0])
    IN  [calendarDays |-> calendarDays,
         workingDays  |-> counts.workingDays,
         weekendDays  |-> counts.weekendDays,
         holidayDays  |-> counts.holidayDays,
         dateRange    |-> dateRange]

getEndDate_OffByOne(startDateStr, calendarDays) ==
    formatDateToYYYYMMDD(DatePlusDays(parseLocalDate(startDateStr), calendarDays))

getEndDate(startDateStr, calendarDays) ==
    formatDateToYYYYMMDD(DatePlusDays(parseLocalDate(startDateStr), calendarDays - 1))

-----------------------------------------------------------------------------
(* Working-day calculator: one call per behaviour *)

StartDates == ValidDatesOf({LastYear}, {2, 12}, 24 .. 31)

HolidayPool ==
    {DateStr(LastYear, 12, 25), DateStr(LastYear, 12, 28), DateStr(LastYear, 12, 29),
     DateStr(LastYear + 1, 1, 1)}

CalendarDaysArgs == 0 .. MaxCalendarDays

CallCalculateWorkingDays ==
    /\ pc = "ready"
    /\ \E start \in StartDates, n \in CalendarDaysArgs, holidays \in SUBSET HolidayPool :
        /\ input' = [fn |-> "calculateWorkingDays", startDateStr |-> start,
                     calendarDays |-> n, holidays |-> holidays]
        /\ output' = calculateWorkingDays(start, n, holidays)
        /\ pc' = "returned"
        /\ UNCHANGED <<policyRegistry, app, localStorage>>

CallCalculateWorkingDaysDetailed ==
    /\ pc = "ready"
    /\ \E start \in StartDates, n \in CalendarDaysArgs, holidays \in SUBSET HolidayPool :
        /\ input' = [fn |-> "calculateWorkingDaysDetailed", startDateStr |-> start,
                     calendarDays |-> n, holidays |-> holidays]
        /\ output' = calculateWorkingDaysDetailed(start, n, holidays)
        /\ pc' = "returned"
        /\ UNCHANGED <<policyRegistry, app, localStorage>>

CallGetDateRange ==
    /\ pc = "ready"
    /\ \E start \in StartDates, n \in CalendarDaysArgs :
        /\ input' = [fn |-> "getDateRange", startDateStr |-> start, calendarDays |-> n]
        /\ output' = getDateRange(start, n)
        /\ pc' = "returned"
        /\ UNCHANGED <<policyRegistry, app, localStorage>>

CallGetEndDate ==
    /\ pc = "ready"
    /\ \E start \in StartDates, n \in CalendarDaysArgs :
        /\ input' = [fn |-> "getEndDate", startDateStr |-> start, calendarDays |-> n]
        /\ output' = getEndDate(start, n)
        /\ pc' = "returned"
        /\ UNCHANGED <<policyRegistry, app, localStorage>>

NextWorkingDays ==
    \/ CallCalculateWorkingDays
    \/ CallCalculateWorkingDaysDetailed
    \/ CallGetDateRange
    \/ CallGetEndDate

SpecWorkingDays == InitCore /\ [][NextWorkingDays]_vars

-----------------------------------------------------------------------------
(* The dates of a range, reckoned in day numbers *)

\* day number of the i-th date (i = 0 is the start date itself)
RangeDay(startDateStr, i) ==
    DaysFromCivil(startDateStr[2], startDateStr[3], startDateStr[4]) + i

RangeDateStr(startDateStr, i) ==
    LET c == CivilFromDays(RangeDay(startDateStr, i))
    IN  DateStr(c.y, c.m, c.d)

\* Saturday or Sunday, counting from Thursday 1970-01-01
IsSatOrSun(startDateStr, i) == (RangeDay(startDateStr, i) - 2) % 7 \in {0, 1}

WeekendOffsets(start, n) == {i \in 0 .. n - 1 : IsSatOrSun(start, i)}

HolidayOffsets(start, n, holidays) ==
    {i \in 0 .. n - 1 : RangeDateStr(start, i) \in holidays}

-----------------------------------------------------------------------------
(* C7: for every start date, n >= 0 and holiday set,                       *)
(* 0 <= calculateWorkingDays <= n, and calculateWorkingDaysDetailed        *)
(* returns workingDays + weekendDays + holidayDays = calendarDays, each    *)
(* date of the range counted in exactly one of the three.                  *)
C7_WorkingDayBound ==
    /\ Returned("calculateWorkingDays") =>
          output >= 0 /\ output <= input.calendarDays
    /\ Returned("calculateWorkingDaysDetailed") =>
          /\ output.workingDays + output.weekendDays + output.holidayDays
                = output.calendarDays
          /\ output.calendarDays = input.calendarDays
          /\ Len(output.dateRange) = input.calendarDays
          /\ output.workingDays >= 0
          /\ output.weekendDays >= 0
          /\ output.holidayDays >= 0

\* a range in which a date is both a holiday and a weekend day, with all
\* three counts positive
C7_Witness ==
    /\ Returned("calculateWorkingDaysDetailed")
    /\ output.workingDays > 0
    /\ output.weekendDays > 0
    /\ output.holidayDays > 0
    /\ WeekendOffsets(input.startDateStr, input.calendarDays)
          \cap HolidayOffsets(input.startDateStr, input.calendarDays, input.holidays) # {}

-----------------------------------------------------------------------------
(* C8: calculateWorkingDays is the number of dates among the n consecutive *)
(* dates from start that are neither Saturday/Sunday nor in holidays; a    *)
(* holiday on a weekend removes its date once (it is counted in            *)
(* weekendDays, not in holidayDays), and a holiday outside the range       *)
(* changes nothing.                                                        *)
C8_WorkingDayCount ==
    LET start == input.startDateStr
        n == input.calendarDays
        weekends == WeekendOffsets(start, n)
        holidayOffs == HolidayOffsets(start, n, input.holidays)
        inRange == {h \in input.holidays : \E i \in 0 .. n - 1 : RangeDateStr(start, i) = h}
    IN  /\ Returned("calculateWorkingDays") =>
              /\ output = Cardinality((0 .. n - 1) \ (weekends \cup holidayOffs))
              /\ output = calculateWorkingDays(start, n, inRange)
        /\ Returned("calculateWorkingDaysDetailed") =>
              /\ output.workingDays = Cardinality((0 .. n - 1) \ (weekends \cup holidayOffs))
              /\ output.weekendDays = Cardinality(weekends)
              /\ output.holidayDays = Cardinality(holidayOffs \ weekends)

\* one holiday of the range falls on a weekend and another holiday lies
\* outside the range
C8_Witness ==
    /\ Returned("calculateWorkingDays")
    /\ WeekendOffsets(input.startDateStr, input.calendarDays)
          \cap HolidayOffsets(input.startDateStr, input.calendarDays, input.holidays) # {}
    /\ \E h \in input.holidays :
          \A i \in 0 .. input.calendarDays - 1 : RangeDateStr(input.startDateStr, i) # h
    /\ output > 0
    /\ output < input.calendarDays

-----------------------------------------------------------------------------
(* Date strings: one call per behaviour *)

\* texts that match the pattern YYYY-MM-DD, real days or not, and texts whose
\* year is not four characters wide
DateTexts ==
    {DateStr(y, m, d) :
        y \in {0, 50, 99, 100, 999, 1000, 1900, 2000, LastYear - 1, LastYear, 9999},
        m \in 0 .. 13, d \in 0 .. 32}
    \cup {<<3, 999, 1, 1>>, <<5, 10000, 1, 1>>, <<2, 24, 1, 1>>, EmptyString}

CallIsValidDateString ==
    /\ pc = "ready"
    /\ \E s \in DateTexts :
        /\ input' = [fn |-> "isValidDateString", dateStr |-> s]
        /\ output' = isValidDateString(s)
        /\ pc' = "returned"
        /\ UNCHANGED <<policyRegistry, app, localStorage>>

-----------------------------------------------------------------------------
(* Free-form text, as typed into a date field: a sequence of tokens, each  *)
(* a maximal run of digits <<"digits", width, value>> or one other         *)
(* character.  No two digit runs are adjacent.                             *)

Digits(width, value) == <<"digits", width, value>>
Space == <<"space", 1, 0>>
Dash  == <<"dash", 1, 0>>
Slash == <<"slash", 1, 0>>
Dot   == <<"dot", 1, 0>>
Letter == <<"letter", 1, 0>>

Null == <<>>

RECURSIVE TrimStart(_)
TrimStart(text) ==
    IF text # <<>> /\ Head(text) = Space THEN TrimStart(Tail(text)) ELSE text

RECURSIVE TrimEnd(_)
TrimEnd(text) ==
    IF text # <<>> /\ text[Len(text)] = Space
    THEN TrimEnd(SubSeq(text, 1, Len(text) - 1)) ELSE text

\* input.trim()
Trim(text) == TrimEnd(TrimStart(text))

\* a character of the class [-/.\s]
IsSeparator(token) == token \in {Dash, Slash, Dot, Space}

RECURSIVE SkipSeparators(_)
SkipSeparators(text) ==
    IF text # <<>> /\ IsSeparator(Head(text)) THEN SkipSeparators(Tail(text)) ELSE text

RECURSIVE SplitFrom(_, _)
\* text.split(/[-/.\s]+/), current being the part collected so far
SplitFrom(text, current) ==
    IF text = <<>> THEN <<current>>
    ELSE IF IsSeparator(Head(text))
    THEN <<current>> \o SplitFrom(SkipSeparators(text), <<>>)
    ELSE SplitFrom(Tail(text), Append(current, Head(text)))

\* /^\d{lo,hi}$/.test(part)
IsDigitString(part, lo, hi) ==
    /\ Len(part) = 1
    /\ part[1][1] = "digits"
    /\ part[1][2] >= lo
    /\ part[1][2] <= hi

\* `${year}-${month, two wide}-${day, two wide}` for month and day below 100
NormalizedText(year, month, day) == <<YearTextWidth(year), year, month, day>>

normalizeDateInput_NoFinalCheck(text) ==
    LET trimmed == Trim(text)
        parts == SplitFrom(trimmed, <<>>)
    IN  IF trimmed = <<>> THEN Null
        ELSE IF Len(parts) # 3 THEN Null
        ELSE IF ~IsDigitString(parts[1], 4, 4) THEN Null
        ELSE IF ~IsDigitString(parts[2], 1, 2) THEN Null
        ELSE IF parts[2][1][3] < 1 \/ parts[2][1][3] > 12 THEN Null
        ELSE IF ~IsDigitString(parts[3], 1, 2) THEN Null
        ELSE IF parts[3][1][3] < 1 \/ parts[3][1][3] > 31 THEN Null
        ELSE <<NormalizedText(parts[1][1][3], parts[2][1][3], parts[3][1][3])>>

normalizeDateInput(text) ==
    LET trimmed == Trim(text)
        parts == SplitFrom(trimmed, <<>>)
    IN  IF trimmed = <<>> THEN Null
        ELSE IF Len(parts) # 3 THEN Null
        ELSE IF ~IsDigitString(parts[1], 4, 4) THEN Null
        ELSE IF ~IsDigitString(parts[2], 1, 2) THEN Null
        ELSE IF parts[2][1][3] < 1 \/ parts[2][1][3] > 12 THEN Null
        ELSE IF ~IsDigitString(parts[3], 1, 2) THEN Null
        ELSE IF parts[3][1][3] < 1 \/ parts[3][1][3] > 31 THEN Null
        ELSE IF ~isValidDateString(
                    NormalizedText(parts[1][1][3], parts[2][1][3], parts[3][1][3]))
        THEN Null
        ELSE <<NormalizedText(parts[1][1][3], parts[2][1][3], parts[3][1][3])>>

YearTokens ==
    {Digits(4, LastYear), Digits(4, LastYear - 1), Digits(4, 999), Digits(2, 24), Letter}

MonthTokens ==
    {Digits(2, 6), Digits(1, 6), Digits(2, 2), Digits(2, 13), Digits(1, 0), Digits(3, 6)}

DayTokens ==
    {Digits(2, 12), Digits(1, 2), Digits(2, 29), Digits(2, 30), Digits(2, 32),
     Digits(1, 0), Letter}

\* year, month and day tokens with separators between and text around them,
\* and shorter texts
InputTexts ==
    {lead \o <<y>> \o sep1 \o <<m>> \o sep2 \o <<d>> \o trail :
        lead \in {<<>>, <<Space, Space>>, <<Dash>>},
        y \in YearTokens,
        sep1 \in {<<Dash>>, <<Slash>>, <<Dot>>, <<Space, Space>>, <<Dot, Space>>},
        m \in MonthTokens,
        sep2 \in {<<Dash>>, <<Slash>>, <<Space>>},
        d \in DayTokens,
        trail \in {<<>>, <<Space>>, <<Dash>>, <<Dash, Digits(2, 1)>>}}
    \cup {<<>>, <<Space>>, <<Letter, Letter>>, <<Digits(4, LastYear)>>,
          <<Digits(4, LastYear), Dash, Digits(2, 6)>>, <<Digits(8, 20240612)>>}

CallNormalizeDateInput ==
    /\ pc = "ready"
    /\ \E text \in InputTexts :
        /\ input' = [fn |-> "normalizeDateInput", text |-> text]
        /\ output' = normalizeDateInput(text)
        /\ pc' = "returned"
        /\ UNCHANGED <<policyRegistry, app, localStorage>>

NextDates ==
    \/ CallIsValidDateString
    \/ CallNormalizeDateInput

SpecDates == InitCore /\ [][NextDates]_vars

-----------------------------------------------------------------------------
(* Real calendar days, from the Gregorian rules *)

IsLeapYear(y) == y % 4 = 0 /\ (y % 100 # 0 \/ y % 400 = 0)

DaysInMonth(y, m) ==
    IF m = 2 THEN (IF IsLeapYear(y) THEN 29 ELSE 28)
    ELSE IF m \in {4, 6, 9, 11} THEN 30
    ELSE 31

\* the text has the form YYYY-MM-DD and names a day that exists
IsCalendarDate(s) ==
    /\ Len(s) = 4
    /\ s[1] = 4
    /\ s[3] \in 1 .. 12
    /\ s[4] >= 1
    /\ s[4] <= DaysInMonth(s[2], s[3])

-----------------------------------------------------------------------------
(* C11: isValidDateString(s) is true exactly for the strings of the form   *)
(* YYYY-MM-DD that denote a real calendar day and false for every other    *)
(* string; every string it accepts is returned unchanged by                *)
(* formatDate(parseDate(s)).                                               *)
C11_ValidIffCalendarDate ==
    Returned("isValidDateString") =>
        /\ output <=> IsCalendarDate(input.dateStr)
        /\ output => formatDate(parseDate(input.dateStr)) = input.dateStr

-----------------------------------------------------------------------------
(* Validators: one call per behaviour.  The arguments break every rule,    *)
(* alone and together with others.                                         *)

ValidationHireDates ==
    {DateStr(LastYear - 1, 1, 1), DateStr(LastYear, 6, 15), DateStr(LastYear, 2, 30),
     EmptyString}

ValidationAsOfDates ==
    {DateStr(LastYear, 1, 1), DateStr(LastYear, 6, 15), DateStr(LastYear, 13, 1)}

\* -1 h, 0 h, 0.5 h, 8 h, 24 h and 24.5 h
ValidationWorkHours ==
    {-HourUnit, 0, 1, 8 * HourUnit, 24 * HourUnit, 24 * HourUnit + 1}

\* undefined, 0 h, 40 h, 0.5 h, -1 h and -0.5 h
ValidationUsedHours ==
    {Undefined, <<0>>, <<40 * HourUnit>>, <<1>>, <<-HourUnit>>, <<-1>>}

ValidationUsageRecords ==
    {[date |-> DateStr(LastYear, 1, 1),   amountHours |-> 16 * HourUnit],
     [date |-> DateStr(LastYear, 12, 31), amountHours |-> 8 * HourUnit],
     [date |-> DateStr(LastYear, 2, 30),  amountHours |-> 4 * HourUnit],
     [date |-> DateStr(LastYear, 6, 15),  amountHours |-> 1],
     [date |-> DateStr(LastYear, 3, 10),  amountHours |-> 0],
     [date |-> DateStr(LastYear, 2, 30),  amountHours |-> -1]}

ValidationInputs ==
    [hireDate        : ValidationHireDates,
     asOfDate        : ValidationAsOfDates,
     workHoursPerDay : ValidationWorkHours,
     usedHoursTotal  : ValidationUsedHours,
     usageRecords    : {Undefined}
                        \cup {<<l>> : l \in SeqsUpTo(ValidationUsageRecords, MaxRecords)},
     policyConfig    : {[type |-> "DEFAULT"]}]

CallValidateInput ==
    /\ pc = "ready"
    /\ \E in \in ValidationInputs :
        /\ input' = [fn |-> "validateInput", arg |-> in]
        /\ output' = validateInput(in)
        /\ pc' = "returned"
        /\ UNCHANGED <<policyRegistry, app, localStorage>>

ValidationYears == {1899, 1900, LastYear, 2100, 2101}

ValidationYearHireDates ==
    {DateStr(LastYear - 1, 1, 1), DateStr(LastYear, 12, 31), DateStr(LastYear + 1, 1, 1),
     DateStr(LastYear, 2, 30), EmptyString}

ValidationAnnualRecords ==
    {[date |-> DateStr(LastYear, 3, 10),      amountHours |-> 8 * HourUnit],
     [date |-> DateStr(LastYear - 1, 12, 31), amountHours |-> 8 * HourUnit],
     [date |-> DateStr(LastYear, 2, 30),      amountHours |-> 4 * HourUnit],
     [date |-> DateStr(LastYear, 12, 31),     amountHours |-> 1],
     [date |-> DateStr(LastYear, 1, 1),       amountHours |-> 0],
     [date |-> DateStr(LastYear + 1, 1, 1),   amountHours |-> -1]}

ValidationYearInputs ==
    [year               : ValidationYears,
     hireDate           : ValidationYearHireDates,
     carryDays          : CarryDaysArgs,
     workHoursPerDay    : ValidationWorkHours,
     annualLeaveRecords : SeqsUpTo(ValidationAnnualRecords, MaxRecords),
     policyConfig       : {[type |-> "DEFAULT"]}]

CallValidateYearRemainInput ==
    /\ pc = "ready"
    /\ \E in \in ValidationYearInputs :
        /\ input' = [fn |-> "validateYearRemainInput", arg |-> in]
        /\ output' = validateYearRemainInput(in)
        /\ pc' = "returned"
        /\ UNCHANGED <<policyRegistry, app, localStorage>>

NextValidation ==
    \/ CallValidateInput
    \/ CallValidateYearRemainInput

SpecValidation == InitCore /\ [][NextValidation]_vars

-----------------------------------------------------------------------------
(* C12: validateInput returns isValid = true exactly when hireDate and     *)
(* asOfDate are valid date strings, asOfDate is not before hireDate (equal *)
(* dates are accepted), 0 < workHoursPerDay <= 24, usedHoursTotal, if      *)
(* given, is a non-negative integer, and every usage record has a valid    *)
(* date and a positive integer amountHours.                                *)
C12_InputAccepted ==
    Returned("validateInput") =>
        LET in == input.arg
            records == IF in.usageRecords = Undefined THEN <<>> ELSE in.usageRecords[1]
        IN  output.isValid <=>
              /\ isValidDateString(in.hireDate)
              /\ isValidDateString(in.asOfDate)
              /\ ~DateBefore(in.asOfDate, in.hireDate)
              /\ in.workHoursPerDay > 0
              /\ in.workHoursPerDay <= 24 * HourUnit
              /\ in.usedHoursTotal # Undefined =>
                    in.usedHoursTotal[1] >= 0 /\ in.usedHoursTotal[1] % HourUnit = 0
              /\ \A i \in 1 .. Len(records) :
                    /\ isValidDateString(records[i].date)
                    /\ records[i].amountHours > 0
                    /\ records[i].amountHours % HourUnit = 0

\* accepted with equal dates, 24 hours a day, a zero scalar and a full list,
\* one record of it dated after asOfDate
C12_Witness ==
    /\ Returned("validateInput")
    /\ output.isValid
    /\ input.arg.hireDate = input.arg.asOfDate
    /\ input.arg.workHoursPerDay = 24 * HourUnit
    /\ input.arg.usedHoursTotal = <<0>>
    /\ input.arg.usageRecords # Undefined
    /\ Len(input.arg.usageRecords[1]) = MaxRecords
    /\ output.warnings # <<>>

-----------------------------------------------------------------------------
-----------------------------------------------------------------------------
(* The rules an input breaks, each named by the message that reports it *)

BrokenRecordRules(prefix, records) ==
    UNION {
        (IF ~isValidDateString(records[i].date)
         THEN {<<prefix \o ": date invalid", i>>} ELSE {})
        \cup (IF records[i].amountHours <= 0
              THEN {<<prefix \o ": amountHours must be positive", i>>} ELSE {})
        \cup (IF records[i].amountHours % HourUnit # 0
              THEN {<<prefix \o ": amountHours must be an integer", i>>} ELSE {})
        : i \in 1 .. Len(records)}

BrokenWorkHoursRule(in) ==
    IF in.workHoursPerDay > 0 /\ in.workHoursPerDay <= 24 * HourUnit
    THEN {} ELSE {<<"workHoursPerDay out of range">>}

BrokenInputRules(in) ==
    (IF isValidDateString(in.hireDate) THEN {} ELSE {<<"hireDate invalid">>})
    \cup (IF isValidDateString(in.asOfDate) THEN {} ELSE {<<"asOfDate invalid">>})
    \cup (IF /\ isValidDateString(in.hireDate)
             /\ isValidDateString(in.asOfDate)
             /\ DateBefore(in.asOfDate, in.hireDate)
          THEN {<<"asOfDate must not be before hireDate">>} ELSE {})
    \cup BrokenWorkHoursRule(in)
    \cup (IF in.usedHoursTotal # Undefined /\ in.usedHoursTotal[1] < 0
          THEN {<<"usedHoursTotal must not be negative">>} ELSE {})
    \cup (IF in.usedHoursTotal # Undefined /\ in.usedHoursTotal[1] % HourUnit # 0
          THEN {<<"usedHoursTotal must be an integer">>} ELSE {})
    \cup (IF in.usageRecords = Undefined THEN {}
          ELSE BrokenRecordRules("usage record", in.usageRecords[1]))

BrokenYearInputRules(in) ==
    (IF in.year \in 1900 .. 2100 THEN {} ELSE {<<"year invalid">>})
    \cup (IF isValidDateString(in.hireDate) THEN {} ELSE {<<"hireDate invalid">>})
    \cup (IF isValidDateString(in.hireDate) /\ in.hireDate[2] > in.year
          THEN {<<"hireDate is after the year">>} ELSE {})
    \cup (IF in.carryDays >= 0 THEN {} ELSE {<<"carryDays must not be negative">>})
    \cup BrokenWorkHoursRule(in)
    \cup BrokenRecordRules("annual leave", in.annualLeaveRecords)
    \cup {<<"annual leave: date outside the year", i, in.year>> :
            i \in {j \in 1 .. Len(in.annualLeaveRecords) :
                    /\ isValidDateString(in.annualLeaveRecords[j].date)
                    /\ in.annualLeaveRecords[j].date[2] # in.year}}

SeqRange(q) == {q[k] : k \in 1 .. Len(q)}

-----------------------------------------------------------------------------
(* C14: both validators check every rule on every call: the returned       *)
(* errors list holds one message for each rule the input breaks, whatever  *)
(* other rules it also breaks, and for each offending record.              *)
C14_AllRulesReported ==
    /\ Returned("validateInput") =>
          /\ SeqRange(output.errors) = BrokenInputRules(input.arg)
          /\ Len(output.errors) = Cardinality(BrokenInputRules(input.arg))
    /\ Returned("validateYearRemainInput") =>
          /\ SeqRange(output.errors) = BrokenYearInputRules(input.arg)
          /\ Len(output.errors) = Cardinality(BrokenYearInputRules(input.arg))

\* four rules of the input itself are broken and so is every record of a
\* full list; all are reported
C14_Witness ==
    /\ Returned("validateInput")
    /\ input.arg.usageRecords # Undefined
    /\ Len(input.arg.usageRecords[1]) = MaxRecords
    /\ \A i \in 1 .. MaxRecords :
          \E k \in 1 .. Len(output.errors) :
              Len(output.errors[k]) = 2 /\ output.errors[k][2] = i
    /\ {<<"hireDate invalid">>, <<"asOfDate invalid">>, <<"workHoursPerDay out of range">>,
        <<"usedHoursTotal must be an integer">>} \subseteq SeqRange(output.errors)

-----------------------------------------------------------------------------
(* C15: a usage record dated after asOfDate never makes the input invalid: *)
(* validateInput adds one warning for it and no error, and for every       *)
(* accepted input the records that produce a warning are exactly the       *)
(* records that calculateUsedHours leaves out of usedHoursTotal.           *)

\* record i has a valid date that lies after the valid asOfDate
IsLateRecord(in, i) ==
    /\ isValidDateString(in.usageRecords[1][i].date)
    /\ isValidDateString(in.asOfDate)
    /\ DateBefore(in.asOfDate, in.usageRecords[1][i].date)

\* the input with every late record re-dated to asOfDate
WithLateRecordsRedated(in) ==
    IF in.usageRecords = Undefined THEN in
    ELSE [in EXCEPT !.usageRecords =
            <<[i \in 1 .. Len(in.usageRecords[1]) |->
                IF IsLateRecord(in, i)
                THEN [in.usageRecords[1][i] EXCEPT !.date = in.asOfDate]
                ELSE in.usageRecords[1][i]]>>]

WarnedRecords(warnings) == {warnings[k][2] : k \in 1 .. Len(warnings)}

RECURSIVE TotalUnwarned(_, _, _)
TotalUnwarned(records, n, warned) ==
    IF n = 0 THEN 0
    ELSE TotalUnwarned(records, n - 1, warned)
            + (IF n \in warned THEN 0 ELSE records[n].amountHours)

C15_LateRecordsWarned ==
    Returned("validateInput") =>
        LET in == input.arg
            n  == IF in.usageRecords = Undefined THEN 0 ELSE Len(in.usageRecords[1])
        IN  /\ \A i \in 1 .. n :
                  Cardinality({k \in 1 .. Len(output.warnings) : output.warnings[k][2] = i})
                      = IF IsLateRecord(in, i) THEN 1 ELSE 0
            /\ Len(output.warnings) = Cardinality({i \in 1 .. n : IsLateRecord(in, i)})
            /\ output.errors = validateInput(WithLateRecordsRedated(in)).errors
            /\ (output.isValid /\ n > 0) =>
                  calculateUsedHours(in.usedHoursTotal, in.usageRecords, in.asOfDate)
                      = TotalUnwarned(in.usageRecords[1], n, WarnedRecords(output.warnings))

\* an accepted full list with a record on asOfDate itself and a late one
C15_Witness ==
    /\ Returned("validateInput")
    /\ output.isValid
    /\ input.arg.usageRecords # Undefined
    /\ Len(input.arg.usageRecords[1]) = MaxRecords
    /\ \E i, j \in 1 .. MaxRecords :
          /\ IsLateRecord(input.arg, i)
          /\ input.arg.usageRecords[1][j].date = input.arg.asOfDate
    /\ Len(output.warnings) >= 1
    /\ calculateUsedHours(input.arg.usedHoursTotal, input.arg.usageRecords,
                          input.arg.asOfDate) > 0

-----------------------------------------------------------------------------
(* C16: getAccruedDays called with a policy type that is not registered    *)
(* does not fail: it returns the same value as a call with type 'DEFAULT'  *)
(* for the same hire and as-of dates.                                      *)
C16_UnregisteredTypeFallsBack ==
    (/\ pc # "ready"
     /\ input.fn = "getAccruedDays"
     /\ input.policyConfig.type \notin getAvailablePolicies(policyRegistry)) =>
        /\ pc = "returned"
        /\ output = getAccruedDays(policyRegistry, input.hireDate, input.asOfDate,
                                   [type |-> "DEFAULT"])

-----------------------------------------------------------------------------
(* C17: all hour-denominated results are integers: for every input         *)
(* accepted by validateInput, accruedHoursTotal, usedHoursTotal and        *)
(* remainingHours are integers, and for every input accepted by            *)
(* validateYearRemainInput, yearlyGrantHours, carryHours, availableHours,  *)
(* usedHours and remainingHours are integers.                              *)
C17_IntegerHours ==
    /\ (Returned("calculate") /\ validateInput(input.arg).isValid /\ ~output.thrown) =>
          /\ IsIntegerHours(output.value.accruedHoursTotal)
          /\ IsIntegerHours(output.value.usedHoursTotal)
          /\ IsIntegerHours(output.value.remainingHours)
    /\ (Returned("calculateYearRemain") /\ validateYearRemainInput(input.arg).isValid) =>
          /\ IsIntegerHours(output.value.yearlyGrantHours)
          /\ IsIntegerHours(output.value.carryHours)
          /\ IsIntegerHours(output.value.availableHours)
          /\ IsIntegerHours(output.value.usedHours)
          /\ IsIntegerHours(output.value.remainingHours)

-----------------------------------------------------------------------------
(* C18: getDateRange(start, n) returns exactly n consecutive calendar      *)
(* dates in ascending order beginning with start itself, also across month *)
(* and year boundaries, and for every n >= 1 getEndDate(start, n) is       *)
(* start + (n-1) days, the last element of getDateRange(start, n).         *)

\* the calendar day after the date y-m-d, by the Gregorian rules
NextCalendarDate(s) ==
    IF s[4] < DaysInMonth(s[2], s[3]) THEN DateStr(s[2], s[3], s[4] + 1)
    ELSE IF s[3] < 12 THEN DateStr(s[2], s[3] + 1, 1)
    ELSE DateStr(s[2] + 1, 1, 1)

C18_DateRange ==
    /\ Returned("getDateRange") =>
          /\ Len(output) = input.calendarDays
          /\ input.calendarDays >= 1 => output[1] = input.startDateStr
          /\ \A k \in 1 .. Len(output) - 1 : output[k + 1] = NextCalendarDate(output[k])
    /\ (Returned("getEndDate") /\ input.calendarDays >= 1) =>
          /\ output = RangeDateStr(input.startDateStr, input.calendarDays - 1)
          /\ output = getDateRange(input.startDateStr, input.calendarDays)
                          [input.calendarDays]

\* a range that runs from December into January of the next year
C18_Witness ==
    /\ Returned("getDateRange")
    /\ Len(output) = MaxCalendarDays
    /\ output[1][2] = LastYear
    /\ output[1][3] = 12
    /\ output[MaxCalendarDays] = DateStr(LastYear + 1, 1, 2)

-----------------------------------------------------------------------------
(* formatters.ts.  A rendered amount is [sign, days, hours]: sign is "-"   *)
(* or "", days is <<d>> for the part "d일" and <<>> when that part is not  *)
(* printed, hours likewise for the part "r시간", r in 1/HourUnit hours.    *)

\* Math.abs(Math.trunc(hours)), in 1/HourUnit hours
AbsTrunc(hours) ==
    (IF hours < 0 THEN (-hours) \div HourUnit ELSE hours \div HourUnit) * HourUnit

HoursText(sign, days, hours) == [sign |-> sign, days |-> days, hours |-> hours]

formatHoursAsDaysHours_HoursAlwaysShown(hours, workHoursPerDay) ==
    LET sign == IF hours < 0 THEN "-" ELSE ""
        abs  == AbsTrunc(hours)
        days == abs \div workHoursPerDay
        remH == abs % workHoursPerDay
    IN  IF days = 0 /\ remH = 0 THEN HoursText("", <<0>>, <<0>>)
        ELSE IF days = 0 THEN HoursText(sign, <<>>, <<remH>>)
        ELSE HoursText(sign, <<days>>, <<remH>>)

formatHoursAsDaysHours(hours, workHoursPerDay) ==
    LET sign == IF hours < 0 THEN "-" ELSE ""
        abs  == AbsTrunc(hours)
        days == abs \div workHoursPerDay
        remH == abs % workHoursPerDay
    IN  IF days = 0 /\ remH = 0 THEN HoursText("", <<0>>, <<0>>)
        ELSE IF days = 0 THEN HoursText(sign, <<>>, <<remH>>)
        ELSE IF remH = 0 THEN HoursText(sign, <<days>>, <<>>)
        ELSE HoursText(sign, <<days>>, <<remH>>)

\* -MaxFormatHours h .. MaxFormatHours h in steps of 1/HourUnit
FormatHoursArgs == (-MaxFormatHours * HourUnit) .. (MaxFormatHours * HourUnit)

\* 0.5 h, 1 h, 5 h, 7.5 h and 8 h
FormatWorkHours == {1, HourUnit, 5 * HourUnit, 7 * HourUnit + 1, 8 * HourUnit}

CallFormatHoursAsDaysHours ==
    /\ pc = "ready"
    /\ \E h \in FormatHoursArgs, w \in FormatWorkHours :
        /\ input' = [fn |-> "formatHoursAsDaysHours", hours |-> h, workHoursPerDay |-> w]
        /\ output' = formatHoursAsDaysHours(h, w)
        /\ pc' = "returned"
        /\ UNCHANGED <<policyRegistry, app, localStorage>>

NextFormatters ==
    \/ CallFormatHoursAsDaysHours

SpecFormatters == InitCore /\ [][NextFormatters]_vars

-----------------------------------------------------------------------------
(* C20: for every integer hours h and positive integer workHoursPerDay w,  *)
(* formatHoursAsDaysHours(h, w) renders d = |h| div w days and r = |h| mod *)
(* w hours (d*w + r = |h|), prefixed with '-' exactly when h < 0; the hour *)
(* part is omitted when r = 0 and d > 0, the day part when d = 0 and       *)
(* r > 0, and h = 0 renders as "0일 0시간".                                *)
C20_DaysHoursText ==
    (/\ Returned("formatHoursAsDaysHours")
     /\ input.hours % HourUnit = 0
     /\ input.workHoursPerDay % HourUnit = 0) =>
        LET h == input.hours \div HourUnit
            w == input.workHoursPerDay \div HourUnit
            a == IF h < 0 THEN -h ELSE h
            d == CHOOSE q \in 0 .. a : q * w <= a /\ a < (q + 1) * w
            r == a - d * w
        IN  /\ output.sign = (IF h < 0 THEN "-" ELSE "")
            /\ output.days = (IF d = 0 /\ r > 0 THEN <<>> ELSE <<d>>)
            /\ output.hours = (IF r = 0 /\ d > 0 THEN <<>> ELSE <<r * HourUnit>>)
            /\ h = 0 => output = HoursText("", <<0>>, <<0>>)

\* -9 hours at 8 hours a day: "-1일 1시간"
C20_Witness ==
    /\ Returned("formatHoursAsDaysHours")
    /\ input.hours = -9 * HourUnit
    /\ input.workHoursPerDay = 8 * HourUnit
    /\ output = HoursText("-", <<1>>, <<HourUnit>>)

-----------------------------------------------------------------------------
(* C19: normalizeDateInput returns either null or a string accepted by     *)
(* isValidDateString that carries the same year, month and day as the      *)
(* input parts; every string accepted by isValidDateString is returned     *)
(* unchanged, and a well-formed but non-existent date yields null.         *)

\* the digit runs of a text, in order
DigitRuns(text) ==
    LET IsRun(token) == token[1] = "digits"
    IN  SelectSeq(text, IsRun)

\* the text is written YYYY-MM-DD
IsDateShaped(text) ==
    /\ Len(text) = 5
    /\ text[1][1] = "digits" /\ text[1][2] = 4
    /\ text[2] = Dash
    /\ text[3][1] = "digits" /\ text[3][2] = 2
    /\ text[4] = Dash
    /\ text[5][1] = "digits" /\ text[5][2] = 2

C19_NormalizedOrNull ==
    Returned("normalizeDateInput") =>
        LET text == input.text
            runs == DigitRuns(text)
        IN  /\ output # Null =>
                  /\ isValidDateString(output[1])
                  /\ IsCalendarDate(output[1])
                  /\ Len(runs) = 3
                  /\ output[1][2] = runs[1][3]
                  /\ output[1][3] = runs[2][3]
                  /\ output[1][4] = runs[3][3]
            /\ IsDateShaped(text) =>
                  output = IF isValidDateString(DateStr(text[1][3], text[3][3], text[5][3]))
                           THEN <<DateStr(text[1][3], text[3][3], text[5][3])>>
                           ELSE Null

\* one-digit month and day between mixed separators inside blanks are
\* rewritten two wide
C19_Witness ==
    /\ Returned("normalizeDateInput")
    /\ input.text = <<Space, Space, Digits(4, LastYear), Dot, Space, Digits(1, 6), Slash,
                      Digits(1, 2), Space>>
    /\ output = <<DateStr(LastYear, 6, 2)>>

-----------------------------------------------------------------------------
(* C30: calculateWorkingDaysDetailed reports the working-day count that    *)
(* calculateWorkingDays returns for the same start date, number of         *)
(* calendar days (0 or more) and holiday set, and its dateRange is         *)
(* getDateRange of the same start date and number of days.                 *)

C30_DetailedAgrees ==
    Returned("calculateWorkingDaysDetailed") =>
        /\ output.workingDays =
              calculateWorkingDays(input.startDateStr, input.calendarDays, input.holidays)
        /\ output.dateRange = getDateRange(input.startDateStr, input.calendarDays)

\* a range that holds a weekend day and a weekday holiday
C30_Witness ==
    /\ Returned("calculateWorkingDaysDetailed")
    /\ output.weekendDays >= 1
    /\ output.holidayDays >= 1
    /\ output.workingDays >= 1
    /\ output.workingDays + 2 <= input.calendarDays

-----------------------------------------------------------------------------
(* C29: under the DEFAULT policy, with the hire date fixed, getAccruedDays *)
(* never decreases as the as-of date moves forward, and it is never        *)
(* negative.                                                               *)

C29_AccrualMonotone ==
    (/\ Returned("getAccruedDays")
     /\ input.policyConfig.type = "DEFAULT"
     /\ policyRegistry["DEFAULT"] = "builtin") =>
        /\ output >= 0
        /\ \A a1 \in AsOfDates :
              DateNotAfter(a1, input.asOfDate) =>
                  getAccruedDays(policyRegistry, input.hireDate, a1, input.policyConfig)
                      <= output

\* an as-of date with a strictly smaller earlier as-of date on or after the
\* hire date, and one before the hire date
C29_Witness ==
    /\ Returned("getAccruedDays")
    /\ input.policyConfig.type = "DEFAULT"
    /\ policyRegistry["DEFAULT"] = "builtin"
    /\ output > 11
    /\ \E a1 \in AsOfDates :
          /\ DateNotAfter(input.hireDate, a1)
          /\ DateBefore(a1, input.asOfDate)
          /\ getAccruedDays(policyRegistry, input.hireDate, a1, input.policyConfig) < output
    /\ \E a0 \in AsOfDates : DateBefore(a0, input.hireDate)

-----------------------------------------------------------------------------
(* C28: for every input validateYearRemainInput accepts, the tenure as of  *)
(* December 31 of the target year is 0 years exactly when the hire year is *)
(* the target year and at least 1 year exactly when the hire year is       *)
(* earlier; the branch min(totalMonths, 11) for an earlier hire year is    *)
(* never taken, and yearlyGrantDays lies in 1..11 or in 15..25.            *)

C28_TenureByHireYear ==
    (/\ Returned("calculateYearRemain")
     /\ validateYearRemainInput(input.arg).isValid) =>
        LET in == input.arg
            servicePeriod == calculateServicePeriod(in.hireDate, YearEnd(in.year))
        IN  /\ ~output.thrown
            /\ output.value.tenureYears = servicePeriod.years
            /\ (servicePeriod.years = 0) <=> (in.hireDate[2] = in.year)
            /\ (servicePeriod.years >= 1) <=> (in.hireDate[2] < in.year)
            /\ ~(servicePeriod.years < 1 /\ in.hireDate[2] # in.year)
            /\ output.value.yearlyGrantDays \in (1 .. 11) \cup (15 .. 25)

\* hired on the last day of the year before the target year: one full year
C28_Witness ==
    /\ Returned("calculateYearRemain")
    /\ validateYearRemainInput(input.arg).isValid
    /\ input.arg.hireDate = DateStr(input.arg.year - 1, 12, 31)
    /\ output.value.tenureYears = 1
    /\ output.value.yearlyGrantDays = 15

-----------------------------------------------------------------------------
(* Holiday presets (mergeUniqueSorted).  Array.prototype.sort without a    *)
(* comparator orders strings by their UTF-16 code units.                   *)

RECURSIVE Pow10(_)
Pow10(n) == IF n = 0 THEN 1 ELSE 10 * Pow10(n - 1)

\* code units of a number written with the given number of digits ("0" is 48)
DigitUnits(value, width) ==
    [i \in 1 .. width |-> 48 + ((value \div Pow10(width - i)) % 10)]

\* code units of a date string ("-" is 45)
CodeUnits(s) ==
    IF s = EmptyString THEN <<>>
    ELSE DigitUnits(s[2], s[1]) \o <<45>> \o DigitUnits(s[3], 2) \o <<45>>
            \o DigitUnits(s[4], 2)

RECURSIVE UnitsLess(_, _)
UnitsLess(a, b) ==
    IF b = <<>> THEN FALSE
    ELSE IF a = <<>> THEN TRUE
    ELSE IF Head(a) # Head(b) THEN Head(a) < Head(b)
    ELSE UnitsLess(Tail(a), Tail(b))

\* the default sort order of two strings
StringLess(s, t) == UnitsLess(CodeUnits(s), CodeUnits(t))

RECURSIVE SetOrder(_, _)
\* new Set(array): the distinct elements, in the order of first occurrence
SetOrder(array, seen) ==
    IF array = <<>> THEN seen
    ELSE SetOrder(Tail(array),
             IF \E i \in 1 .. Len(seen) : seen[i] = Head(array)
             THEN seen ELSE Append(seen, Head(array)))

RECURSIVE InsertSorted(_, _)
InsertSorted(s, sorted) ==
    IF sorted = <<>> THEN <<s>>
    ELSE IF StringLess(s, Head(sorted)) THEN <<s>> \o sorted
    ELSE <<Head(sorted)>> \o InsertSorted(s, Tail(sorted))

RECURSIVE SortStrings(_)
\* array.sort()
SortStrings(array) ==
    IF array = <<>> THEN <<>>
    ELSE InsertSorted(Head(array), SortStrings(Tail(array)))

mergeUniqueSorted_NotSorted(base, add) == SetOrder(base \o add, <<>>)

mergeUniqueSorted(base, add) == SortStrings(SetOrder(base \o add, <<>>))

\* dates of two months and two years, a day that normalizeDateStr accepts
\* although no calendar has it among them
MergePool ==
    {DateStr(LastYear, 9, 31), DateStr(LastYear, 10, 3), DateStr(LastYear, 10, 25),
     DateStr(LastYear + 1, 1, 1)}

MergeLists == SeqsUpTo(MergePool, MaxRecords + 1)

CallMergeUniqueSorted ==
    /\ pc = "ready"
    /\ \E base \in MergeLists, add \in MergeLists :
        /\ input' = [fn |-> "mergeUniqueSorted", base |-> base, add |-> add]
        /\ output' = mergeUniqueSorted(base, add)
        /\ pc' = "returned"
        /\ UNCHANGED <<policyRegistry, app, localStorage>>

NextHolidays ==
    \/ CallMergeUniqueSorted

SpecHolidays == InitCore /\ [][NextHolidays]_vars

-----------------------------------------------------------------------------
(* C25: mergeUniqueSorted(base, add) holds exactly the dates of the two    *)
(* lists, each once, in ascending calendar order; swapping the arguments   *)
(* gives the same list, and merging the result with either argument again  *)
(* gives the same list.                                                    *)

C25_MergedUnion ==
    Returned("mergeUniqueSorted") =>
        LET base == input.base
            add == input.add
            merged == output
        IN  /\ SeqRange(merged) = SeqRange(base) \cup SeqRange(add)
            /\ Len(merged) = Cardinality(SeqRange(base) \cup SeqRange(add))
            /\ \A i, j \in 1 .. Len(merged) : i < j => DateBefore(merged[i], merged[j])
            /\ merged = mergeUniqueSorted(add, base)
            /\ mergeUniqueSorted(merged, base) = merged
            /\ mergeUniqueSorted(merged, add) = merged
            /\ mergeUniqueSorted(base, merged) = merged
            /\ mergeUniqueSorted(add, merged) = merged

\* two unsorted lists that share a date
C25_Witness ==
    /\ Returned("mergeUniqueSorted")
    /\ input.base = <<DateStr(LastYear + 1, 1, 1), DateStr(LastYear, 9, 31)>>
    /\ input.add = <<DateStr(LastYear, 10, 3), DateStr(LastYear, 9, 31)>>
    /\ output = <<DateStr(LastYear, 9, 31), DateStr(LastYear, 10, 3),
                  DateStr(LastYear + 1, 1, 1)>>

-----------------------------------------------------------------------------
(* C23: every registerPolicy(T, calculator) call leaves the registry so    *)
(* that getAccruedDays with type T uses that calculator, whatever was      *)
(* registered under T before ('DEFAULT' included), leaves the result for   *)
(* every other registered name as it was, and leaves 'DEFAULT' in          *)
(* getAvailablePolicies; so after any sequence of calls each name has the  *)
(* calculator most recently registered under it.                           *)

RegisterPolicyStep ==
    /\ pc = "ready"
    /\ pc' = "ready"
    /\ input'.fn = "registerPolicy"

RegistrationEffect ==
    RegisterPolicyStep =>
        /\ \A h \in HireDates, a \in AsOfDates :
              /\ getAccruedDays(policyRegistry', h, a, [type |-> input'.name])
                    = ApplyCalculator(input'.calculator, h, a, [type |-> input'.name])
              /\ \A other \in getAvailablePolicies(policyRegistry) \ {input'.name} :
                    getAccruedDays(policyRegistry', h, a, [type |-> other])
                        = getAccruedDays(policyRegistry, h, a, [type |-> other])
        /\ "DEFAULT" \in getAvailablePolicies(policyRegistry')
        /\ getAvailablePolicies(policyRegistry) \subseteq getAvailablePolicies(policyRegistry')

C23_LatestRegistrationWins == [][RegistrationEffect]_vars

\* 'DEFAULT' overwritten after another policy had been registered
C23_Witness ==
    /\ pc = "ready"
    /\ input.fn = "registerPolicy"
    /\ input.name = "DEFAULT"
    /\ input.calculator = "flat"
    /\ policyRegistry["DEFAULT"] = "flat"
    /\ "COMPANY" \in getAvailablePolicies(policyRegistry)
    /\ policyRegistry["COMPANY"] = "builtin"

-----------------------------------------------------------------------------
(* App.tsx.  A render commits the component state; the effects whose       *)
(* dependencies changed in that render then run in the order they are      *)
(* declared (load, save, recompute), each seeing the values of that        *)
(* render; the state updates they make are queued and applied by the next  *)
(* render.  An event handler runs when no effect and no update is pending, *)
(* and its state update is rendered at once.  The storage holds only       *)
(* entries this version of the component wrote, which migrateOldData       *)
(* returns as they are.                                                    *)

\* constants.ts, in units of 1/HourUnit hour
WORK_HOURS_PER_DAY == 8 * HourUnit

\* MonthDayPicker.tsx, month and day below 100
formatToDateString(year, month, day) == <<YearTextWidth(year), year, month, day>>

EffectDeps_RecomputeOnHydration ==
    [load      |-> {"year"},
     save      |-> {"isHydrated", "year", "carryDays", "annualLeaveRecords",
                    "eventLeaveRecords", "holidays", "hireDate"},
     recompute |-> {"isHydrated"}]

\* the dependency lists of the three effects
EffectDeps ==
    [load      |-> {"year"},
     save      |-> {"isHydrated", "year", "carryDays", "annualLeaveRecords",
                    "eventLeaveRecords", "holidays", "hireDate"},
     recompute |-> {"holidays", "isHydrated"}]

\* the effects to run after a render in which these state values changed
EffectsAfter(changed) ==
    LET Runs(effect) == EffectDeps[effect] \cap changed # {}
    IN  SelectSeq(<<"load", "save", "recompute">>, Runs)

\* new Set(holidays)
holidaysSet(holidays) == {holidays[k] : k \in 1 .. Len(holidays)}

RECURSIVE InsertByDate(_, _)
\* the place of a record behind every record whose date is not later
InsertByDate(record, sorted) ==
    IF sorted = <<>> THEN <<record>>
    ELSE IF StringLess(record.date, Head(sorted).date) THEN <<record>> \o sorted
    ELSE <<Head(sorted)>> \o InsertByDate(record, Tail(sorted))

RECURSIVE SortByDate(_)
\* records.sort((a, b) => a.date.localeCompare(b.date)), a stable sort
SortByDate(records) ==
    IF records = <<>> THEN <<>>
    ELSE InsertByDate(records[Len(records)],
                      SortByDate(SubSeq(records, 1, Len(records) - 1)))

\* the updater of the recompute effect
RecomputeWorkingDays_FromWorkingDays(records, holidays) ==
    [k \in 1 .. Len(records) |->
        LET record == records[k]
            workingDays == calculateWorkingDays(record.date, record.workingDays, holidays)
        IN  IF workingDays # record.workingDays
            THEN [record EXCEPT !.workingDays = workingDays]
            ELSE record]

RecomputeWorkingDays(records, holidays) ==
    [k \in 1 .. Len(records) |->
        LET record == records[k]
            workingDays == calculateWorkingDays(record.date, record.calendarDays, holidays)
        IN  IF workingDays # record.workingDays
            THEN [record EXCEPT !.workingDays = workingDays]
            ELSE record]

SetState(var, value) == [var |-> var, op |-> "set", value |-> value]

\* one queued update applied to the state
ApplyUpdate(state, update) ==
    IF update.op = "recompute"
    THEN [state EXCEPT !.eventLeaveRecords =
                          RecomputeWorkingDays(state.eventLeaveRecords, update.value)]
    ELSE [state EXCEPT ![update.var] = update.value]

RECURSIVE ApplyQueue(_, _)
ApplyQueue(state, queue) ==
    IF queue = <<>> THEN state
    ELSE ApplyQueue(ApplyUpdate(state, Head(queue)), Tail(queue))

ArrayStates == {"annualLeaveRecords", "eventLeaveRecords", "holidays"}

\* the state values the next render sees as changed: an array that was set
\* is a new object, any other value is compared with the one before
ChangedBy(state, queue) ==
    LET next == ApplyQueue(state, queue)
    IN  {var \in {"year", "hireDate", "carryDays", "isHydrated"} : next[var] # state[var]}
            \cup {var \in ArrayStates : \E k \in 1 .. Len(queue) : queue[k].var = var}

\* the render after the updates of a handler or of the effects
Rendered(state, queue) ==
    [ApplyQueue(state, queue) EXCEPT
        !.effects = EffectsAfter(ChangedBy(state, queue)),
        !.queue = <<>>]

\* no effect and no update is pending
Idle == app.effects = <<>> /\ app.queue = <<>>

\* an event handler that makes these updates
Handle(updates) ==
    /\ Idle
    /\ app' = Rendered(app, updates)
    /\ UNCHANGED <<input, output, pc, policyRegistry, localStorage>>

\* the entry the save effect and handleManualSave write
Payload(state) ==
    [year               |-> state.year,
     hireDate           |-> state.hireDate,
     carryDays          |-> state.carryDays,
     annualLeaveRecords |-> state.annualLeaveRecords,
     eventLeaveRecords  |-> state.eventLeaveRecords,
     holidays           |-> state.holidays]

\* the updates the load effect makes
LoadUpdates(state, storage) ==
    LET raw == storage.years[state.year]
    IN  <<SetState("isHydrated", FALSE)>>
        \o (IF raw # NoItem
            THEN <<SetState("carryDays", raw[1].carryDays),
                   SetState("annualLeaveRecords", raw[1].annualLeaveRecords),
                   SetState("eventLeaveRecords", raw[1].eventLeaveRecords),
                   SetState("holidays", raw[1].holidays)>>
                 \o (IF raw[1].hireDate # EmptyString
                     THEN <<SetState("hireDate", raw[1].hireDate)>> ELSE <<>>)
            ELSE <<SetState("carryDays", 0),
                   SetState("annualLeaveRecords", <<>>),
                   SetState("eventLeaveRecords", <<>>),
                   SetState("holidays", <<>>)>>)
        \o (IF /\ storage.hireDate # NoItem
               /\ ~(raw # NoItem /\ raw[1].hireDate # EmptyString)
            THEN <<SetState("hireDate", storage.hireDate[1])>> ELSE <<>>)
        \o <<SetState("isHydrated", TRUE)>>

RunLoadEffect ==
    /\ app.effects # <<>>
    /\ Head(app.effects) = "load"
    /\ app' = [app EXCEPT !.effects = Tail(@),
                          !.queue = @ \o LoadUpdates(app, localStorage)]
    /\ UNCHANGED <<input, output, pc, policyRegistry, localStorage>>

RunSaveEffect ==
    /\ app.effects # <<>>
    /\ Head(app.effects) = "save"
    /\ app' = [app EXCEPT !.effects = Tail(@)]
    /\ localStorage' =
          IF ~app.isHydrated THEN localStorage
          ELSE [years    |-> [localStorage.years EXCEPT ![app.year] = <<Payload(app)>>],
                hireDate |-> IF app.hireDate # EmptyString
                             THEN <<app.hireDate>> ELSE localStorage.hireDate]
    /\ UNCHANGED <<input, output, pc, policyRegistry>>

RunRecomputeEffect ==
    /\ app.effects # <<>>
    /\ Head(app.effects) = "recompute"
    /\ app' = [app EXCEPT
                  !.effects = Tail(@),
                  !.queue = IF ~app.isHydrated THEN @
                            ELSE Append(@, [var   |-> "eventLeaveRecords",
                                            op    |-> "recompute",
                                            value |-> holidaysSet(app.holidays)])]
    /\ UNCHANGED <<input, output, pc, policyRegistry, localStorage>>

\* the render that applies the updates the effects made
Render ==
    /\ app.effects = <<>>
    /\ app.queue # <<>>
    /\ app' = Rendered(app, app.queue)
    /\ UNCHANGED <<input, output, pc, policyRegistry, localStorage>>

\* the page is opened again, in either year
Reload ==
    /\ Idle
    /\ \E currentYear \in AppYears : app' = InitialApp(currentYear)
    /\ UNCHANGED <<input, output, pc, policyRegistry, localStorage>>

-----------------------------------------------------------------------------
(* App.tsx: what the user does *)

HireDateInputs == {DateStr(PresetYear - 3, 3, 1), DateStr(PresetYear - 1, 7, 1)}

CarryDaysInputs == {0, 5}

\* the start dates picked for an event leave, as month and day
EventStartDays == {<<12, 21>>, <<12, 24>>}

\* calendarDays of the EVENT_LEAVE_POLICIES entry offered (DEATH_CHILD)
EventPolicyDays == {3}

MaxEventRecords == 1

\* the dates typed into the holiday field, as month and day of the year shown
HolidayDays == {<<12, 24>>, <<12, 25>>}

\* KOREAN_PUBLIC_HOLIDAYS_2026, as month and day
KoreanPublicHolidays2026 ==
    <<<<1, 1>>, <<2, 16>>, <<2, 17>>, <<2, 18>>, <<3, 1>>, <<3, 2>>, <<5, 5>>, <<5, 24>>,
      <<5, 25>>, <<6, 3>>, <<6, 6>>, <<8, 15>>, <<8, 17>>, <<9, 24>>, <<9, 25>>, <<9, 26>>,
      <<10, 3>>, <<10, 5>>, <<10, 9>>, <<12, 25>>>>

isSupportedYear(year) == year = PresetYear

\* with includeLaborDay false; <<>> stands for null
getKoreanPublicHolidaysPreset(year) ==
    IF year = PresetYear
    THEN <<SortStrings([k \in 1 .. Len(KoreanPublicHolidays2026) |->
                           DateStr(PresetYear, KoreanPublicHolidays2026[k][1],
                                   KoreanPublicHolidays2026[k][2])])>>
    ELSE <<>>

\* the date field of the hire date
EnterHireDate ==
    \E value \in HireDateInputs :
        /\ value # app.hireDate
        /\ Handle(<<SetState("hireDate", value)>>)

\* the number field of the carried-over days
EnterCarryDays ==
    \E value \in CarryDaysInputs :
        /\ value # app.carryDays
        /\ Handle(<<SetState("carryDays", value)>>)

handleYearDecrement ==
    LET year == IF app.year - 1 < 2000 THEN 2000 ELSE app.year - 1
    IN  /\ year \in AppYears
        /\ year # app.year
        /\ Handle(<<SetState("year", year)>>)

handleYearIncrement ==
    LET year == IF app.year + 1 > 2100 THEN 2100 ELSE app.year + 1
    IN  /\ year \in AppYears
        /\ year # app.year
        /\ Handle(<<SetState("year", year)>>)

\* a full day of annual leave on March 10 of the year shown
handleAddAnnualLeave ==
    /\ Len(app.annualLeaveRecords) < 1
    /\ Handle(<<SetState("annualLeaveRecords",
                  SortByDate(Append(app.annualLeaveRecords,
                      [date        |-> formatToDateString(app.year, 3, 10),
                       amountHours |-> WORK_HOURS_PER_DAY])))>>)

\* EventLeaveSelector: the record carries the working days of the preview
handleAddEventLeave ==
    /\ Len(app.eventLeaveRecords) < MaxEventRecords
    /\ \E start \in EventStartDays, calendarDays \in EventPolicyDays :
        LET startDate == formatToDateString(app.year, start[1], start[2])
            preview == calculateWorkingDays(startDate, calendarDays,
                                            holidaysSet(app.holidays))
            id == CHOOSE i \in 1 .. MaxEventRecords :
                      \A k \in 1 .. Len(app.eventLeaveRecords) :
                          app.eventLeaveRecords[k].id # i
        IN  Handle(<<SetState("eventLeaveRecords",
                        SortByDate(Append(app.eventLeaveRecords,
                            [id           |-> id,
                             date         |-> startDate,
                             calendarDays |-> calendarDays,
                             workingDays  |-> preview])))>>)

\* the month or the day of a record's start date is changed
handleUpdateEventLeave ==
    /\ Idle
    /\ \E k \in 1 .. Len(app.eventLeaveRecords), start \in EventStartDays :
        LET id == app.eventLeaveRecords[k].id
            date == formatToDateString(app.year, start[1], start[2])
            updated ==
                [j \in 1 .. Len(app.eventLeaveRecords) |->
                    LET r == app.eventLeaveRecords[j]
                    IN  IF r.id # id THEN r
                        ELSE [r EXCEPT
                                 !.date = date,
                                 !.workingDays =
                                     calculateWorkingDays(date, r.calendarDays,
                                         holidaysSet(app.holidays))]]
        IN  /\ date # app.eventLeaveRecords[k].date
            /\ Handle(<<SetState("eventLeaveRecords", SortByDate(updated))>>)

\* the removal is confirmed
handleRemoveEventLeave ==
    /\ Idle
    /\ \E k \in 1 .. Len(app.eventLeaveRecords) :
        LET id == app.eventLeaveRecords[k].id
            Keeps(r) == r.id # id
        IN  Handle(<<SetState("eventLeaveRecords",
                        SelectSeq(app.eventLeaveRecords, Keeps))>>)

\* HolidayManager.handleAdd: a date already listed is refused
handleAddHoliday ==
    \E day \in HolidayDays :
        LET date == formatToDateString(app.year, day[1], day[2])
        IN  /\ date \notin holidaysSet(app.holidays)
            /\ Handle(<<SetState("holidays", SortStrings(Append(app.holidays, date)))>>)

\* one of the dates typed in before is removed
handleRemoveHoliday ==
    \E day \in HolidayDays :
        LET date == formatToDateString(app.year, day[1], day[2])
            Keeps(d) == d # date
        IN  /\ date \in holidaysSet(app.holidays)
            /\ Handle(<<SetState("holidays", SelectSeq(app.holidays, Keeps))>>)

\* HolidayManager.handleApplyPreset and handleBulkAddHolidays
handleApplyPreset ==
    /\ isSupportedYear(app.year)
    /\ getKoreanPublicHolidaysPreset(app.year) # <<>>
    /\ Handle(<<SetState("holidays",
                  mergeUniqueSorted(app.holidays,
                                    getKoreanPublicHolidaysPreset(app.year)[1]))>>)

NextEffects ==
    \/ RunLoadEffect
    \/ RunSaveEffect
    \/ RunRecomputeEffect
    \/ Render

\* event leave and holidays, over both years
NextEventLeave ==
    \/ NextEffects
    \/ handleAddEventLeave
    \/ handleUpdateEventLeave
    \/ handleRemoveEventLeave
    \/ handleAddHoliday
    \/ handleRemoveHoliday
    \/ handleApplyPreset
    \/ handleYearDecrement
    \/ handleYearIncrement
    \/ Reload

SpecEventLeave == InitCore /\ [][NextEventLeave]_vars

\* event leave, holidays and the inputs of the balance, in one year
NextBalance ==
    \/ NextEffects
    \/ EnterHireDate
    \/ EnterCarryDays
    \/ handleAddAnnualLeave
    \/ handleAddEventLeave
    \/ handleUpdateEventLeave
    \/ handleRemoveEventLeave
    \/ handleAddHoliday
    \/ handleRemoveHoliday
    \/ handleApplyPreset

SpecBalance == InitCore /\ [][NextBalance]_vars

\* useMemo of lines 430-459, with event-leave days taken as leave hours
yearRemainResult_EventLeaveCounted(state) ==
    IF state.hireDate = EmptyString
    THEN [result |-> Null, errors |-> <<>>, warnings |-> <<>>]
    ELSE LET in == [year               |-> state.year,
                    hireDate           |-> state.hireDate,
                    carryDays          |-> state.carryDays,
                    workHoursPerDay    |-> WORK_HOURS_PER_DAY,
                    annualLeaveRecords |->
                        state.annualLeaveRecords
                        \o [k \in 1 .. Len(state.eventLeaveRecords) |->
                               [date        |-> state.eventLeaveRecords[k].date,
                                amountHours |-> state.eventLeaveRecords[k].workingDays
                                                   * WORK_HOURS_PER_DAY]],
                    policyConfig       |-> [type |-> "DEFAULT"]]
             validation == validateYearRemainInput(in)
         IN  IF ~validation.isValid
             THEN [result |-> Null, errors |-> validation.errors,
                   warnings |-> validation.warnings]
             ELSE [result   |-> <<calculateYearRemain(in).value>>,
                   errors   |-> <<>>,
                   warnings |-> validation.warnings
                                \o (IF calculateYearRemain(in).value.remainingHours < 0
                                    THEN <<<<"remaining leave is negative">>>> ELSE <<>>)]

\* useMemo of lines 430-459
yearRemainResult(state) ==
    IF state.hireDate = EmptyString
    THEN [result |-> Null, errors |-> <<>>, warnings |-> <<>>]
    ELSE LET in == [year               |-> state.year,
                    hireDate           |-> state.hireDate,
                    carryDays          |-> state.carryDays,
                    workHoursPerDay    |-> WORK_HOURS_PER_DAY,
                    annualLeaveRecords |-> state.annualLeaveRecords,
                    policyConfig       |-> [type |-> "DEFAULT"]]
             validation == validateYearRemainInput(in)
         IN  IF ~validation.isValid
             THEN [result |-> Null, errors |-> validation.errors,
                   warnings |-> validation.warnings]
             ELSE [result   |-> <<calculateYearRemain(in).value>>,
                   errors   |-> <<>>,
                   warnings |-> validation.warnings
                                \o (IF calculateYearRemain(in).value.remainingHours < 0
                                    THEN <<<<"remaining leave is negative">>>> ELSE <<>>)]

-----------------------------------------------------------------------------
(* C22: after any sequence of holiday additions and removals, preset       *)
(* merges, event-leave additions, date updates and removals and year       *)
(* loads, once the effects have run and their updates are rendered, every  *)
(* event-leave record has workingDays =                                    *)
(* calculateWorkingDays(record.date, record.calendarDays, holidays).       *)

UpToDate(record, holidays) ==
    record.workingDays =
        calculateWorkingDays(record.date, record.calendarDays, holidaysSet(holidays))



C22_WorkingDaysCurrent ==
    Idle =>
        \A k \in 1 .. Len(app.eventLeaveRecords) :
            UpToDate(app.eventLeaveRecords[k], app.holidays)

\* a record whose range holds a listed holiday on a weekday, a weekend day
\* and a working day
C22_Witness ==
    /\ Idle
    /\ app.holidays # <<>>
    /\ \E k \in 1 .. Len(app.eventLeaveRecords) :
          LET record == app.eventLeaveRecords[k]
          IN  /\ record.workingDays >= 1
              /\ record.workingDays < calculateWorkingDays(record.date,
                                          record.calendarDays, {})
              /\ calculateWorkingDays(record.date, record.calendarDays, {})
                    < record.calendarDays

-----------------------------------------------------------------------------
(* C21: the recompute step is idempotent: applied twice with the same      *)
(* holiday set it gives the records it gives when applied once, and it     *)
(* leaves records that are up to date as they are.                         *)

\* the recompute effect has queued its update
RecomputePending ==
    /\ app.queue # <<>>
    /\ app.queue[Len(app.queue)].op = "recompute"

\* the records the pending recompute update will be applied to
RecordsBeforeRecompute ==
    ApplyQueue(app, SubSeq(app.queue, 1, Len(app.queue) - 1)).eventLeaveRecords

C21_RecomputeIdempotent ==
    RecomputePending =>
        LET holidays == app.queue[Len(app.queue)].value
            before == RecordsBeforeRecompute
            once == RecomputeWorkingDays(before, holidays)
            twice == RecomputeWorkingDays(once, holidays)
        IN  /\ twice = once
            /\ \A k \in 1 .. Len(once) :
                  once[k].workingDays =
                      calculateWorkingDays(before[k].date, before[k].calendarDays, holidays)
            /\ (\A k \in 1 .. Len(before) :
                    before[k].workingDays =
                        calculateWorkingDays(before[k].date, before[k].calendarDays,
                                             holidays))
                  => once = before

\* the pending recompute changes the working days of a record
C21_Witness ==
    /\ RecomputePending
    /\ \E k \in 1 .. Len(RecordsBeforeRecompute) :
          LET record == RecordsBeforeRecompute[k]
              holidays == app.queue[Len(app.queue)].value
          IN  /\ record.workingDays #
                    calculateWorkingDays(record.date, record.calendarDays, holidays)
              /\ calculateWorkingDays(record.date, record.calendarDays, holidays) >= 1

-----------------------------------------------------------------------------
(* C24: adding, updating or removing an event-leave record, adding or      *)
(* removing holidays, and the effects that follow leave the per-year       *)
(* result (yearlyGrantHours, carryHours, availableHours, usedHours,        *)
(* remainingHours) and the annual-leave record list unchanged.             *)

\* the render applies nothing but the recompute effect's update
RenderOfRecompute ==
    /\ Render
    /\ \A k \in 1 .. Len(app.queue) : app.queue[k].op = "recompute"

EventLeaveOrHolidayStep ==
    \/ handleAddEventLeave
    \/ handleUpdateEventLeave
    \/ handleRemoveEventLeave
    \/ handleAddHoliday
    \/ handleRemoveHoliday
    \/ handleApplyPreset
    \/ RunRecomputeEffect
    \/ RenderOfRecompute

BalanceUntouched ==
    EventLeaveOrHolidayStep =>
        /\ yearRemainResult(app') = yearRemainResult(app)
        /\ app'.annualLeaveRecords = app.annualLeaveRecords

C24_EventLeaveApart == [][BalanceUntouched]_vars

\* a balance is shown, with annual leave used, beside an event-leave record
\* shortened by a holiday
C24_Witness ==
    /\ Idle
    /\ yearRemainResult(app).result # Null
    /\ yearRemainResult(app).result[1].usedHours = WORK_HOURS_PER_DAY
    /\ yearRemainResult(app).result[1].carryHours = 5 * WORK_HOURS_PER_DAY
    /\ app.holidays # <<>>
    /\ \E k \in 1 .. Len(app.eventLeaveRecords) :
          /\ app.eventLeaveRecords[k].workingDays >= 1
          /\ app.eventLeaveRecords[k].workingDays
                < calculateWorkingDays(app.eventLeaveRecords[k].date,
                                       app.eventLeaveRecords[k].calendarDays, {})

-----------------------------------------------------------------------------
(* The hire date, the carried-over days and the year selector *)

NextYears ==
    \/ NextEffects
    \/ EnterHireDate
    \/ EnterCarryDays
    \/ handleAddHoliday
    \/ handleYearDecrement
    \/ handleYearIncrement
    \/ Reload

SpecYears == InitCore /\ [][NextYears]_vars

-----------------------------------------------------------------------------
(* C26: once a hire date is entered, no step other than the user entering  *)
(* a hire date changes the hire date in effect: changing the selected year *)
(* to a year with or without stored data, and back, never replaces it by a *)
(* hire date stored with another year's data.                              *)

HireDateKept ==
    \/ EnterHireDate
    \/ Reload
    \/ app.hireDate = EmptyString
    \/ app'.hireDate = app.hireDate

C26_HireDateShared == [][HireDateKept]_vars

-----------------------------------------------------------------------------
(* C27: whenever the entry of a year is written, the carry-over, the       *)
(* annual-leave records, the event-leave records and the holidays written  *)
(* are those of that year, also in the step in which the selected year     *)
(* changes and the stored data of the new year are not yet shown; and      *)
(* nothing is written on first mount before the stored data are loaded.    *)

\* the state once the pending updates are rendered: after a change of year,
\* the data loaded for app.year
OwnData == ApplyQueue(app, app.queue)

\* date and calendarDays of event-leave records (workingDays is derived)
EventLeaveEntries(records) ==
    [k \in 1 .. Len(records) |-> <<records[k].date, records[k].calendarDays>>]

SaveWritesOwnData ==
    \A y \in AppYears :
        localStorage'.years[y] # localStorage.years[y] =>
            /\ app.isHydrated
            /\ y = app.year
            /\ localStorage'.years[y] # NoItem
            /\ localStorage'.years[y][1].carryDays = OwnData.carryDays
            /\ localStorage'.years[y][1].annualLeaveRecords = OwnData.annualLeaveRecords
            /\ EventLeaveEntries(localStorage'.years[y][1].eventLeaveRecords)
                  = EventLeaveEntries(OwnData.eventLeaveRecords)
            /\ localStorage'.years[y][1].holidays = OwnData.holidays

C27_SaveUnderOwnYear == [][SaveWritesOwnData]_vars

====
